---- MODULE Spec2Model ----
(***************************************************************************)
(* Model of the storage abstraction of wsd/Storage.{hpp,cpp}: the remote   *)
(* (WOPI) backend's asynchronous upload, redirect following, locking, and  *)
(* the storage factory with its host and alias checks.                     *)
(***************************************************************************)
EXTENDS Integers, Sequences, FiniteSets, TLC

VARIABLES
    uploadHttpSession,  \* WopiStorage::_uploadHttpSession is non-null
    inFlight,           \* upload requests handed to the poller, not yet finished
    requestsSent,       \* number of upload requests dispatched so far
    calls,              \* per uploadAsync call: how it went, whether it returned
    callbacks,          \* per uploadAsync call: the AsyncUpload values its callback received
    owner,              \* position of the owner thread inside uploadAsync
    forceSave,          \* StorageBase::_forceSave
    modifiedTime,       \* StorageBase::_fileInfo._modifiedTime
    interp,             \* one upload response and the UploadResult made of it
    uri,                \* StorageBase::_uri, the backend's active URI
    filename,           \* StorageBase::_fileInfo._filename
    fileUrl,            \* WopiStorage::_fileUrl
    isDownloaded,       \* StorageBase::_isDownloaded
    lockCtx,            \* the session's LockContext
    now,                \* std::chrono::steady_clock, in ticks
    refreshSeconds,     \* the configured storage.wopi.locking.refresh
    lastOp,             \* the last metadata, download or lock call: input, requests, outcome
    config,             \* the application's configuration, as initialize leaves it
    FilesystemEnabled,  \* StorageBase::FilesystemEnabled
    WopiEnabled,        \* StorageBase::WopiEnabled
    WopiHosts,          \* StorageBase::WopiHosts: allowed and denied host patterns
    AliasHosts,         \* StorageBase::AliasHosts: alias authority -> canonical authority
    AllHosts,           \* StorageBase::AllHosts: the authorities of the alias groups
    FirstHost,          \* StorageBase::FirstHost
    created,            \* the URIs remote backends were created for, in order
    lastCreate,         \* the last create call: input, outcome
    isTemporaryFile,    \* LocalStorage::_isTemporaryFile
    isCopy,             \* LocalStorage::_isCopy
    localFiles,         \* the public file and the jailed file of the Local backend
    localDownloaded,    \* StorageBase::_isDownloaded of the Local backend
    AnonymizedStrings,  \* Util::AnonymizedStrings: plain text -> pseudonym
    AnonymizationCounter, \* Util::AnonymizationCounter
    anonThreads,        \* per thread: its position inside Util::anonymize
    anonReturned,       \* what the anonymize calls made so far returned
    resolved,           \* the getNewUri calls made so far: input, result
    checks              \* the allowedWopiHost and allowedAlias calls made so far

vars == <<uploadHttpSession, inFlight, requestsSent, calls, callbacks, owner,
          forceSave, modifiedTime, interp,
          uri, filename, fileUrl, isDownloaded, lockCtx, now, refreshSeconds, lastOp,
          config, FilesystemEnabled, WopiEnabled, WopiHosts, AliasHosts, AllHosts,
          FirstHost, created, lastCreate,
          isTemporaryFile, isCopy, localFiles, localDownloaded,
          AnonymizedStrings, AnonymizationCounter, anonThreads, anonReturned, resolved,
          checks>>

localVars == <<isTemporaryFile, isCopy, localFiles, localDownloaded>>

anonVars == <<AnonymizedStrings, AnonymizationCounter, anonThreads, anonReturned>>

tableVars == <<config, FilesystemEnabled, WopiEnabled, WopiHosts, AliasHosts, AllHosts>>

factoryVars == <<tableVars, FirstHost, created, lastCreate, resolved, checks>>

remoteVars == <<uri, filename, fileUrl, isDownloaded, lockCtx, now, refreshSeconds, lastOp>>

uploadVars == <<uploadHttpSession, inFlight, requestsSent, calls, callbacks, owner>>

----------------------------------------------------------------------------
(* Bounds *)

MaxCalls == 2

CallIds == 1..MaxCalls

----------------------------------------------------------------------------
(* HTTP statuses and response bodies the host may answer with *)

HTTP_OK == 200

HTTP_UNAUTHORIZED == 401

HTTP_FORBIDDEN == 403

HTTP_CONFLICT == 409

HTTP_REQUEST_ENTITY_TOO_LARGE == 413

DOC_CHANGED == 1010

UploadStatuses == {200, 201, 302, 401, 403, 404, 409, 413, 500}

NonJsonBody == [json |-> FALSE, obj |-> [none |-> 0]]

JsonBody(o) == [json |-> TRUE, obj |-> o]

UploadBodies ==
    { NonJsonBody,
      JsonBody([UserId |-> "u"]),
      JsonBody([LastModifiedTime |-> "t2"]),
      JsonBody([LastModifiedTime |-> "t3", Name |-> "n", Url |-> "u"]),
      JsonBody([COOLStatusCode |-> 1010]),
      JsonBody([LOOLStatusCode |-> 1010]),
      JsonBody([COOLStatusCode |-> 1000]),
      JsonBody([COOLStatusCode |-> 1000, LOOLStatusCode |-> 1010]) }

\* JsonUtil::parseJSON: true and an object for a JSON body, false otherwise.
parseJSON(body) == body.json

\* JsonUtil::getJSONValue<T>: the value of the key, T() when the key is absent.
getJSONValue(body, key, default) ==
    IF key \in DOMAIN body.obj THEN body.obj[key] ELSE default

----------------------------------------------------------------------------
(* Upload results and response interpretation *)

UploadResult(kind) == [result |-> kind, saveAsName |-> "", saveAsUrl |-> ""]

AsyncUpload(state, kind) == [state |-> state, result |-> kind]

IsUnauthorizedStatus_Only401(code) == code = HTTP_UNAUTHORIZED

\* The status test of the UNAUTHORIZED branch.
IsUnauthorizedStatus(code) == code = HTTP_UNAUTHORIZED \/ code = HTTP_FORBIDDEN

\* The test that upgrades CONFLICT to DOC_CHANGED.
IsDocChanged(body) ==
    LET coolStatusCode == getJSONValue(body, "COOLStatusCode", 0)
        loolStatusCode == getJSONValue(body, "LOOLStatusCode", 0)
    IN  coolStatusCode = DOC_CHANGED \/ loolStatusCode = DOC_CHANGED

notSaved_ClearsForceSave(kind, mtime, force) ==
    [result |-> UploadResult(kind), modifiedTime |-> mtime, forceSave |-> FALSE]

\* The branches for a status other than 200: they set the result and nothing
\* else.
notSaved(kind, mtime, force) ==
    [result |-> UploadResult(kind), modifiedTime |-> mtime, forceSave |-> force]

\* WopiStorage::handleUploadToStorageResponse: the UploadResult, and the
\* _fileInfo._modifiedTime and _forceSave it leaves behind.
handleUploadToStorageResponse(details, body, mtime, force) ==
    IF details.httpResponseCode = HTTP_OK
    THEN IF parseJSON(body)
         THEN [result |->
                 [result |-> "OK",
                  saveAsName |-> IF details.isSaveAs \/ details.isRename
                                 THEN getJSONValue(body, "Name", "") ELSE "",
                  saveAsUrl |-> IF details.isSaveAs \/ details.isRename
                                THEN getJSONValue(body, "Url", "") ELSE ""],
               modifiedTime |-> getJSONValue(body, "LastModifiedTime", ""),
               forceSave |-> FALSE]
         ELSE [result |-> UploadResult("OK"), modifiedTime |-> mtime, forceSave |-> force]
    ELSE IF details.httpResponseCode = HTTP_REQUEST_ENTITY_TOO_LARGE
    THEN notSaved("DISKFULL", mtime, force)
    ELSE IF IsUnauthorizedStatus(details.httpResponseCode)
    THEN notSaved("UNAUTHORIZED", mtime, force)
    ELSE IF details.httpResponseCode = HTTP_CONFLICT
    THEN notSaved(IF parseJSON(body) /\ IsDocChanged(body) THEN "DOC_CHANGED" ELSE "CONFLICT",
                  mtime, force)
    ELSE notSaved("FAILED", mtime, force)

----------------------------------------------------------------------------
(* URIs, the LockContext and the state of a freshly constructed remote backend *)

\* A URI: its path and the values of its access_token query parameters, in order.
Uri(path, tokens) == [path |-> path, tokens |-> tokens]

NoUri == Uri("", <<>>)

\* StorageBase::sanitizeUri: the value of the first access_token parameter is
\* cleared; the loop stops there.
sanitizeUri(u) ==
    IF Len(u.tokens) > 0 THEN [u EXCEPT !.tokens[1] = ""] ELSE u

setUri_KeepsToken(u) == u

\* StorageBase::setUri: the URI stored is the sanitized one.
setUri(u) == sanitizeUri(u)

\* The URI the backend is created with.
CreatedUri == Uri("/wopi/files/1", <<"secret">>)

NoToken == [prefix |-> "", suffix |-> ""]

\* The default of storage.wopi.locking.refresh, in seconds.
DefaultRefreshSeconds == 900

\* LockContext::LockContext
NewLockContext ==
    [supportsLocks |-> FALSE, isLocked |-> FALSE, lockToken |-> NoToken,
     lastLockTime |-> 0, lockFailureReason |-> ""]

\* The values Util::rng::getHexString(8) may return.
RandomHex == {"0a1b2c3d", "9f8e7d6c"}

initSupportsLocks_Always(ctx, rnd) ==
    [ctx EXCEPT !.supportsLocks = TRUE,
                !.lockToken = [prefix |-> "cool-lock", suffix |-> rnd]]

\* LockContext::initSupportsLocks, with rnd what the random generator returns.
initSupportsLocks(ctx, rnd) ==
    IF ctx.supportsLocks
    THEN ctx
    ELSE [ctx EXCEPT !.supportsLocks = TRUE,
                     !.lockToken = [prefix |-> "cool-lock", suffix |-> rnd]]

NoOp == [op |-> "none", host |-> 0, lock |-> FALSE, time |-> 0,
         requests |-> <<>>, outcome |-> "none"]

\* StorageBase::StorageBase and WopiStorage::WopiStorage, with a new LockContext.
RemoteInitAt(u) ==
    /\ uri = setUri(u)
    /\ filename = ""
    /\ fileUrl = ""
    /\ isDownloaded = FALSE
    /\ lockCtx = NewLockContext
    /\ now = 0
    /\ lastOp = NoOp

RemoteInit == RemoteInitAt(CreatedUri)

----------------------------------------------------------------------------
(* Process-wide host authorization: StorageBase::initialize and its tables *)

\* A Poco::URI as the factory reads it; port is "" when absent.
HostUri(scheme, host, port, path) ==
    [scheme |-> scheme, host |-> host, port |-> port, path |-> path]

EmptyUri == HostUri("", "", "", "")

\* Poco::URI::getAuthority
getAuthority(u) == IF u.port = "" THEN u.host ELSE u.host \o ":" \o u.port

\* Poco::URI::isRelative
isRelative(u) == u.scheme = ""

\* Case folding of the names used.
Lower(str) == IF str = "A.EXAMPLE" THEN "a.example" ELSE str

\* Poco::RegularExpression with RE_CASELESS: value, as a pattern, matches the
\* whole of subject.
RegexFullMatch(value, subject) ==
    IF value = ".*\\.example"
    THEN Lower(subject) \in {"a.example", "b.example", "c.example", "gone.example"}
    ELSE IF value = "b.example"
    THEN Lower(subject) \in {"b.example", "bxexample"}   \* the dot matches any character
    ELSE Lower(value) = Lower(subject)

\* Util::matchRegex over a set of patterns.
matchRegex(set, subject) ==
    \/ subject \in set
    \/ \E value \in set : RegexFullMatch(value, subject)

\* Util::RegexListMatcher::match: some allow pattern and no deny pattern.
RegexListMatch(matcher, subject) ==
    matchRegex(matcher.allowed, subject) /\ ~matchRegex(matcher.denied, subject)

NoHosts == [allowed |-> {}, denied |-> {}]

\* StorageBase::addWopiHost
addWopiHost(hosts, host, allow) ==
    IF host = "" THEN hosts
    ELSE IF allow THEN [hosts EXCEPT !.allowed = @ \cup {host}]
    ELSE [hosts EXCEPT !.denied = @ \cup {host}]

RECURSIVE AddHosts(_, _, _)
\* The loop of parseWopiHost over storage.wopi.host[i].
AddHosts(hosts, list, i) ==
    IF i > Len(list) THEN hosts
    ELSE AddHosts(addWopiHost(hosts, list[i].host, list[i].allow), list, i + 1)

\* StorageBase::parseWopiHost
parseWopiHost(cfg) ==
    [WopiEnabled |-> cfg.wopiAllow,
     WopiHosts |-> IF cfg.wopiAllow THEN AddHosts(NoHosts, cfg.hosts, 1) ELSE NoHosts]

\* config::getString("storage.wopi.alias_groups[@mode]", "first")
AliasMode(cfg) == IF cfg.mode = "" THEN "first" ELSE cfg.mode

RECURSIVE AddAliases(_, _, _)
\* The loop of parseAliases over the aliases of one group; std::map::insert
\* keeps an entry that is already there.
AddAliases(t, group, j) ==
    IF j > Len(group.aliases) THEN t
    ELSE LET aliasUri == group.aliases[j]
             key == getAuthority(aliasUri)
         IN  IF aliasUri = EmptyUri
             THEN AddAliases(t, group, j + 1)
             ELSE AddAliases(
                    [WopiHosts |-> addWopiHost(t.WopiHosts, aliasUri.host, group.allow),
                     AliasHosts |-> IF \E e \in t.AliasHosts : e.alias = key
                                    THEN t.AliasHosts
                                    ELSE t.AliasHosts \cup
                                           {[alias |-> key, real |-> getAuthority(group.host)]},
                     AllHosts |-> t.AllHosts \cup {key}],
                    group, j + 1)

RECURSIVE AddGroups(_, _, _)
\* The loop of parseAliases over storage.wopi.alias_groups.group[i].
AddGroups(t, groups, i) ==
    IF i > Len(groups) THEN t
    ELSE LET group == groups[i]
             withHost == [t EXCEPT
                            !.WopiHosts = addWopiHost(@, group.host.host, group.allow),
                            !.AllHosts = @ \cup {getAuthority(group.host)}]
         IN  IF group.host = EmptyUri
             THEN AddGroups(t, groups, i + 1)
             ELSE AddGroups(AddAliases(withHost, group, 1), groups, i + 1)

\* StorageBase::parseAliases: the configuration (its mode may be set to compat)
\* and the tables it leaves.
parseAliases(cfg, hosts) ==
    LET cleared == [WopiHosts |-> hosts, AliasHosts |-> {}, AllHosts |-> {}]
    IN
    IF ~cfg.hasAliasGroups
    THEN [config |-> [cfg EXCEPT !.mode = "compat"],
          tables |-> AddGroups(cleared, cfg.groups, 1)]
    ELSE IF cfg.groups # <<>> /\ AliasMode(cfg) = "first"
    THEN [config |-> cfg, tables |-> cleared]
    ELSE [config |-> cfg, tables |-> AddGroups(cleared, cfg.groups, 1)]

NoCreate == [uri |-> EmptyUri, takeOwnership |-> FALSE, outcome |-> "none",
             firstHostBefore |-> ""]

\* The process after StorageBase::initialize has read the configuration cfg.
Initialized(cfg) ==
    LET w == parseWopiHost(cfg)
        a == parseAliases(cfg, w.WopiHosts)
    IN
    /\ config = a.config
    /\ FilesystemEnabled = cfg.filesystemAllow
    /\ WopiEnabled = w.WopiEnabled
    /\ WopiHosts = a.tables.WopiHosts
    /\ AliasHosts = a.tables.AliasHosts
    /\ AllHosts = a.tables.AllHosts
    /\ FirstHost = ""
    /\ created = <<>>
    /\ lastCreate = NoCreate
    /\ resolved = {}
    /\ checks = <<>>

\* The storage.wopi.host lists tried.
HostLists ==
    { <<>>,
      <<[host |-> "a.example", allow |-> TRUE], [host |-> "b.example", allow |-> TRUE]>>,
      <<[host |-> ".*\\.example", allow |-> TRUE], [host |-> "b.example", allow |-> FALSE]>>,
      <<[host |-> "A.EXAMPLE", allow |-> TRUE], [host |-> "10.0.0.3", allow |-> TRUE],
        [host |-> "", allow |-> TRUE]>> }

\* An alias group: a.example with the aliases b.example and a.example:8080.
ExampleGroup ==
    [host |-> HostUri("https", "a.example", "", ""), allow |-> TRUE,
     aliases |-> <<HostUri("https", "b.example", "", ""),
                   HostUri("https", "a.example", "8080", "")>>]

\* The storage.wopi.alias_groups settings tried: the element absent, empty,
\* with a group under each mode, and empty in compat mode.
AliasSettings ==
    { [hasAliasGroups |-> FALSE, mode |-> "", groups |-> <<>>],
      [hasAliasGroups |-> TRUE, mode |-> "", groups |-> <<>>],
      [hasAliasGroups |-> TRUE, mode |-> "first", groups |-> <<ExampleGroup>>],
      [hasAliasGroups |-> TRUE, mode |-> "groups", groups |-> <<ExampleGroup>>],
      [hasAliasGroups |-> TRUE, mode |-> "compat", groups |-> <<>>] }

Configs ==
    { [filesystemAllow |-> f, wopiAllow |-> w, hosts |-> h,
       hasAliasGroups |-> a.hasAliasGroups, mode |-> a.mode, groups |-> a.groups] :
         f \in BOOLEAN, w \in BOOLEAN, h \in HostLists, a \in AliasSettings }

\* The configuration of the specifications that create no backend.
DefaultConfig ==
    [filesystemAllow |-> FALSE, wopiAllow |-> TRUE, hosts |-> <<>>,
     hasAliasGroups |-> TRUE, mode |-> "first", groups |-> <<>>]

----------------------------------------------------------------------------
(* StorageBase::getNewUri *)

\* Poco::URI::getWellKnownPort, as text
WellKnownPort(scheme) ==
    IF scheme = "https" THEN "443" ELSE IF scheme = "http" THEN "80" ELSE "0"

\* Poco::URI::getPort: the port given, else the well-known port of the scheme.
getPort(u) == IF u.port = "" THEN WellKnownPort(u.scheme) ELSE u.port

\* The host names and ports that occur in authorities.
AuthorityHosts ==
    {"", "main.test", "other.test", "a.example", "b.example", "bxexample", ".*\\.example"}

AuthorityPorts == {"", "8080"}

\* Poco::URI::setAuthority: host and port are replaced by those parsed from
\* the authority.
setAuthority(u, authority) ==
    LET parsed == CHOOSE hp \in AuthorityHosts \X AuthorityPorts :
                      getAuthority(HostUri("", hp[1], hp[2], "")) = authority
    IN  [u EXCEPT !.host = parsed[1], !.port = parsed[2]]

\* AliasHosts[key], std::map::operator[]: the value stored under key; a key
\* that is absent is inserted with an empty value.
AliasValue(table, key) ==
    IF \E e \in table : e.alias = key
    THEN [value |-> (CHOOSE e \in table : e.alias = key).real, table |-> table]
    ELSE [value |-> "", table |-> table \cup {[alias |-> key, real |-> ""]}]

\* Util::matchRegex over the keys of a map.
matchRegexKeys(table, subject) == matchRegex({e.alias : e \in table}, subject)

\* StorageBase::getNewUri: the string returned and AliasHosts after the call.
getNewUri(u, table) ==
    IF Lower(AliasMode(config)) = "compat"
    THEN [result |-> u.path, AliasHosts |-> table]
    ELSE LET key == getAuthority(u)
             matched == matchRegexKeys(table, key)
             found == AliasValue(table, key)
             newUri == IF matched THEN setAuthority(u, found.value) ELSE u
         IN  [result |-> IF getAuthority(newUri) = ""
                         THEN newUri.path
                         ELSE newUri.scheme \o "://" \o newUri.host \o ":"
                                  \o getPort(newUri) \o newUri.path,
              AliasHosts |-> IF matched THEN found.table ELSE table]

\* A call of getNewUri
GetNewUri(u) ==
    LET r == getNewUri(u, AliasHosts)
    IN
    /\ AliasHosts' = r.AliasHosts
    /\ resolved' = resolved \cup {[uri |-> u, result |-> r.result]}
    /\ UNCHANGED <<config, FilesystemEnabled, WopiEnabled, WopiHosts, AllHosts, FirstHost,
                   created, lastCreate, checks>>
    /\ UNCHANGED <<uploadVars, forceSave, modifiedTime, interp, remoteVars, localVars,
                   anonVars>>

\* Alias groups: main.test with aliases listed literally, main.test with an
\* alias given as a pattern, and a second group that lists b.example again.
LiteralGroup ==
    [host |-> HostUri("https", "main.test", "", ""), allow |-> TRUE,
     aliases |-> <<HostUri("https", "b.example", "", ""),
                   HostUri("https", "a.example", "8080", "")>>]

PatternGroup ==
    [host |-> HostUri("https", "main.test", "", ""), allow |-> TRUE,
     aliases |-> <<HostUri("https", ".*\\.example", "", "")>>]

OtherGroup ==
    [host |-> HostUri("https", "other.test", "", ""), allow |-> TRUE,
     aliases |-> <<HostUri("https", "b.example", "", "")>>]

AliasGroupLists ==
    { <<LiteralGroup>>, <<PatternGroup>>, <<LiteralGroup, OtherGroup>>,
      <<OtherGroup, LiteralGroup>> }

AliasConfigs ==
    { [filesystemAllow |-> FALSE, wopiAllow |-> TRUE, hosts |-> <<>>,
       hasAliasGroups |-> TRUE, mode |-> mode, groups |-> groups] :
         mode \in {"groups", "compat"}, groups \in AliasGroupLists }

\* The URIs resolved.
ResolvedUris ==
    { HostUri("https", host, port, path) :
        host \in {"main.test", "a.example", "b.example", "bxexample"},
        port \in AuthorityPorts, path \in {"/p"} }

ResolveStep == \E u \in ResolvedUris : GetNewUri(u)

----------------------------------------------------------------------------
(* StorageBase::create and the checks it applies *)

allowedWopiHost_AnyHost(host) == WopiEnabled

\* StorageBase::allowedWopiHost
allowedWopiHost(host) == WopiEnabled /\ RegexListMatch(WopiHosts, host)

allowedAlias_AnyAuthority(u, first) ==
    [ok |-> TRUE, FirstHost |-> IF first = "" THEN getAuthority(u) ELSE first]

\* StorageBase::allowedAlias with FirstHost = first: the answer and the
\* FirstHost it leaves.
allowedAlias(u, first) ==
    IF AliasMode(config) = "compat"
    THEN [ok |-> TRUE, FirstHost |-> first]
    ELSE IF AllHosts = {}
    THEN IF first = ""
         THEN [ok |-> TRUE, FirstHost |-> getAuthority(u)]
         ELSE IF first # getAuthority(u)
         THEN [ok |-> FALSE, FirstHost |-> first]
         ELSE [ok |-> TRUE, FirstHost |-> first]
    ELSE IF ~matchRegex(AllHosts, getAuthority(u))
    THEN [ok |-> FALSE, FirstHost |-> first]
    ELSE [ok |-> TRUE, FirstHost |-> first]

MaxChecks == 3

\* A direct call of StorageBase::allowedWopiHost
AllowedWopiHost(host) ==
    /\ Len(checks) < MaxChecks
    /\ checks' = Append(checks, [op |-> "allowedWopiHost", arg |-> host,
                                 ok |-> allowedWopiHost(host),
                                 firstBefore |-> FirstHost, firstAfter |-> FirstHost])
    /\ UNCHANGED <<tableVars, FirstHost, created, lastCreate, resolved>>
    /\ UNCHANGED <<uploadVars, forceSave, modifiedTime, interp, remoteVars, localVars,
                   anonVars>>

\* A direct call of StorageBase::allowedAlias
AllowedAlias(u) ==
    LET r == allowedAlias(u, FirstHost)
    IN
    /\ Len(checks) < MaxChecks
    /\ FirstHost' = r.FirstHost
    /\ checks' = Append(checks, [op |-> "allowedAlias", arg |-> getAuthority(u),
                                 ok |-> r.ok,
                                 firstBefore |-> FirstHost, firstAfter |-> r.FirstHost])
    /\ UNCHANGED <<tableVars, created, lastCreate, resolved>>
    /\ UNCHANGED <<uploadVars, forceSave, modifiedTime, interp, remoteVars, localVars,
                   anonVars>>

\* The hosts and URIs the checks are called with; one URI has no authority.
CheckedHosts == {"a.example", "A.EXAMPLE", "b.example", "c.example"}

CheckedUris ==
    { HostUri("https", "a.example", "", "/p"), HostUri("https", "b.example", "", "/p"),
      HostUri("https", "a.example", "8080", "/p"), HostUri("https", "", "", "/p") }

HostCheckStep == \E host \in CheckedHosts : AllowedWopiHost(host)

AliasCheckStep == \E u \in CheckedUris : AllowedAlias(u)

\* net::isLocalhost: the names and addresses of this machine.
net_isLocalhost(host) == host \in {"localhost", "127.0.0.1"}

\* isLocalhost of Storage.cpp
isLocalhost(targetHost) == net_isLocalhost(targetHost)

\* Poco::Net::DNS::resolve: the addresses of a host, or an exception.
Resolve(host) ==
    CASE host = "a.example" -> [ok |-> TRUE, addresses |-> <<"10.0.0.1">>]
      [] host = "b.example" -> [ok |-> TRUE, addresses |-> <<"10.0.0.2">>]
      [] host = "c.example" -> [ok |-> TRUE, addresses |-> <<"10.0.0.4", "10.0.0.3">>]
      [] host = "localhost" -> [ok |-> TRUE, addresses |-> <<"127.0.0.1">>]
      [] OTHER -> [ok |-> FALSE, addresses |-> <<>>]

RECURSIVE AllowedByAddress(_, _, _, _)
\* The loop of create over the addresses the target host resolves to.
AllowedByAddress(addresses, i, u, first) ==
    IF i > Len(addresses) THEN [ok |-> FALSE, FirstHost |-> first]
    ELSE IF allowedWopiHost(addresses[i])
    THEN LET alias == allowedAlias(u, first)
         IN  IF alias.ok THEN alias
             ELSE AllowedByAddress(addresses, i + 1, u, alias.FirstHost)
    ELSE AllowedByAddress(addresses, i + 1, u, first)

\* StorageBase::create
localStorageAllowed_ByConfigOnly(takeOwnership) == FilesystemEnabled

\* The condition under which create returns a LocalStorage for a file URI.
localStorageAllowed(takeOwnership) == FilesystemEnabled \/ takeOwnership

create(u, takeOwnership) ==
    LET targetHost == u.host
        byName == IF allowedWopiHost(targetHost)
                  THEN allowedAlias(u, FirstHost)
                  ELSE [ok |-> FALSE, FirstHost |-> FirstHost]
        dns == Resolve(targetHost)
        byAddress == AllowedByAddress(dns.addresses, 1, u, byName.FirstHost)
        res == IF isRelative(u) \/ u.scheme = "file"
               THEN [outcome |-> IF localStorageAllowed(takeOwnership)
                                 THEN "LocalStorage" ELSE "BadRequest",
                     FirstHost |-> FirstHost]
               ELSE IF WopiEnabled
               THEN IF byName.ok \/ isLocalhost(targetHost)
                    THEN [outcome |-> "WopiStorage", FirstHost |-> byName.FirstHost]
                    ELSE IF ~dns.ok
                    THEN [outcome |-> "HostNotFound", FirstHost |-> byName.FirstHost]
                    ELSE [outcome |-> IF byAddress.ok THEN "WopiStorage" ELSE "Unauthorized",
                          FirstHost |-> byAddress.FirstHost]
               ELSE [outcome |-> "BadRequest", FirstHost |-> FirstHost]
    IN
    /\ FirstHost' = res.FirstHost
    /\ created' = IF res.outcome = "WopiStorage" /\ \A i \in 1..Len(created) : created[i] # u
                  THEN Append(created, u) ELSE created
    /\ lastCreate' = [uri |-> u, takeOwnership |-> takeOwnership, outcome |-> res.outcome,
                      firstHostBefore |-> FirstHost]
    /\ UNCHANGED <<tableVars, resolved, checks>>
    /\ UNCHANGED <<uploadVars, forceSave, modifiedTime, interp, remoteVars, localVars,
                   anonVars>>

\* The URIs create is called with.
CreateUris ==
    { HostUri("https", h, "", "/wopi/files/1") :
        h \in {"a.example", "b.example", "c.example", "localhost", "gone.example"} }
      \cup { HostUri("https", "a.example", "8080", "/wopi/files/1"),
             HostUri("file", "", "", "/doc.odt"),
             HostUri("", "", "", "doc.odt") }

Create ==
    \E u \in CreateUris, takeOwnership \in BOOLEAN : create(u, takeOwnership)

----------------------------------------------------------------------------
(* The Local backend: LocalStorage *)

\* A Local backend that has not been used: the public file exists or not, no
\* jailed file yet, nothing written back to the public path.
NewLocal(temporary, exists) ==
    /\ isTemporaryFile = temporary
    /\ isCopy = FALSE
    /\ localFiles = [public |-> exists, jailed |-> "none", written |-> FALSE]
    /\ localDownloaded = FALSE

LocalIdle == NewLocal(FALSE, TRUE)

hasDiskSpace_Always(spaceOk) == TRUE

\* The free-space check on the jailed destination: FileUtil::checkDiskSpace.
hasDiskSpace(spaceOk) == spaceOk

\* LocalStorage::downloadStorageFileToLocal. spaceOk: what checkDiskSpace finds;
\* moved, linked, copied: whether moveTo, link and copyFileTo succeed when tried.
\* The file operations tried are recorded in lastOp.requests.
localDownloadStorageFileToLocal(spaceOk, moved, linked, copied) ==
    LET exists == localFiles.public
        proceed == exists /\ hasDiskSpace(spaceOk)
        tryMove == proceed /\ isTemporaryFile
        afterMove == IF tryMove /\ moved
                     THEN [localFiles EXCEPT !.public = FALSE, !.jailed = "moved"]
                     ELSE localFiles
        tryLink == proceed /\ afterMove.jailed = "none"
        afterLink == IF tryLink /\ linked THEN [afterMove EXCEPT !.jailed = "linked"]
                     ELSE afterMove
        tryCopy == proceed /\ afterLink.jailed = "none"
        afterCopy == IF tryCopy /\ copied THEN [afterLink EXCEPT !.jailed = "copied"]
                     ELSE afterLink
        outcome == IF ~exists THEN "BadRequest"
                   ELSE IF ~hasDiskSpace(spaceOk) THEN "StorageSpaceLow"
                   ELSE IF tryCopy /\ ~copied THEN "CopyFailed"
                   ELSE "none"
        steps == (IF tryMove THEN <<"move">> ELSE <<>>)
                 \o (IF tryLink THEN <<"link">> ELSE <<>>)
                 \o (IF tryCopy THEN <<"copy">> ELSE <<>>)
    IN
    /\ localFiles' = afterCopy
    /\ isCopy' = (isCopy \/ (tryCopy /\ copied))
    /\ localDownloaded' = (localDownloaded \/ outcome = "none")
    /\ lastOp' = [op |-> "localDownload",
                  host |-> [spaceOk |-> spaceOk, before |-> localFiles],
                  lock |-> FALSE, time |-> now, requests |-> steps, outcome |-> outcome]
    /\ UNCHANGED <<isTemporaryFile, uri, filename, fileUrl, isDownloaded, lockCtx, now,
                   refreshSeconds, modifiedTime>>
    /\ UNCHANGED <<uploadVars, forceSave, interp, factoryVars, anonVars>>

LocalDownload ==
    \E spaceOk \in BOOLEAN, moved \in BOOLEAN, linked \in BOOLEAN, copied \in BOOLEAN :
        localDownloadStorageFileToLocal(spaceOk, moved, linked, copied)

\* FileUtil::Stat(path).modifiedTimepoint() of the public path: the time of the
\* original file, of the file written back, or of no file.
StatModifiedTime(files) ==
    IF ~files.public THEN "epoch" ELSE IF files.written THEN "written" ELSE "original"

copiesBack_WheneverUploading(copy, uploadingExists) == uploadingExists

\* The test before the copy back: _isCopy and the file being uploaded exists.
copiesBack(copy, uploadingExists) == copy /\ uploadingExists

\* LocalStorage::uploadLocalFileToStorage. uploadingExists: whether the jailed
\* file being uploaded exists; copiedBack: whether copyFileTo succeeds when
\* tried. The stored time is then read from the public path on disk.
localUploadLocalFileToStorage(uploadingExists, copiedBack) ==
    LET tryCopy == copiesBack(isCopy, uploadingExists)
        failed == tryCopy /\ ~copiedBack
        after == IF tryCopy /\ copiedBack
                 THEN [localFiles EXCEPT !.public = TRUE, !.written = TRUE]
                 ELSE localFiles
    IN
    /\ localFiles' = after
    /\ modifiedTime' = IF failed THEN modifiedTime ELSE StatModifiedTime(after)
    /\ lastOp' = [op |-> "localUpload",
                  host |-> [isCopy |-> isCopy, uploading |-> uploadingExists,
                            jailed |-> localFiles.jailed],
                  lock |-> FALSE, time |-> now,
                  requests |-> IF tryCopy THEN <<"copyBack">> ELSE <<>>,
                  outcome |-> IF failed THEN "FAILED" ELSE "OK"]
    /\ UNCHANGED <<isTemporaryFile, isCopy, localDownloaded, uri, filename, fileUrl,
                   isDownloaded, lockCtx, now, refreshSeconds>>
    /\ UNCHANGED <<uploadVars, forceSave, interp, factoryVars, anonVars>>

LocalUpload ==
    \E uploadingExists \in BOOLEAN, copiedBack \in BOOLEAN :
        localUploadLocalFileToStorage(uploadingExists, copiedBack)

----------------------------------------------------------------------------
(* Anonymization: Util::anonymize, Util::mapAnonymized *)

\* The hash is the salted 64-bit FNV-1a of the code, computed at a narrower
\* width: HashBits bits instead of 64, with the offset basis and the prime
\* reduced to that width.
HashBits == 6

RECURSIVE Pow2(_)
Pow2(n) == IF n = 0 THEN 1 ELSE 2 * Pow2(n - 1)

HashModulus == Pow2(HashBits)

RECURSIVE BitXor(_, _)
BitXor(a, b) ==
    IF a = 0 THEN b
    ELSE IF b = 0 THEN a
    ELSE (((a % 2) + (b % 2)) % 2) + 2 * BitXor(a \div 2, b \div 2)

FnvOffset == 8997 % HashModulus

FnvPrime == 435 % HashModulus

RECURSIVE FnvChars(_, _)
FnvChars(hash, text) ==
    IF text = <<>> THEN hash
    ELSE FnvChars((BitXor(hash, Head(text)) * FnvPrime) % HashModulus, Tail(text))

\* The hash of anonymize: offset ^ salt, * prime, each char, ^ salt, * prime.
SaltedHash(text, salt) ==
    LET h0 == (BitXor(FnvOffset, salt % HashModulus) * FnvPrime) % HashModulus
        h1 == FnvChars(h0, text)
    IN (BitXor(h1, salt % HashModulus) * FnvPrime) % HashModulus

\* '#' + encodeId(counter) + '#' + encodeId(hash) + '#'
Pseudonym(count, hash) == [kind |-> "anonymized", count |-> count, hash |-> hash]

\* A string a caller hands to mapAnonymized as the anonymized form.
Given(name) == [kind |-> name, count |-> 0, hash |-> 0]

\* The empty string, as the anonymized argument of mapAnonymized.
EmptyAnonymized == Given("")

\* Plain texts, as sequences of character codes; <<>> is the empty string.
Texts == {<<>>, <<1>>, <<2>>}

Salts == {0, 1}

Threads == {1, 2}

MaxAnonymized == 2

Mapped(text) == text \in DOMAIN AnonymizedStrings

mapAnonymized_KeepsFirst(table, plain, anonymized) ==
    IF plain = <<>> \/ anonymized = EmptyAnonymized \/ plain \in DOMAIN table THEN table
    ELSE [t \in DOMAIN table \cup {plain} |-> IF t = plain THEN anonymized ELSE table[t]]

\* Util::mapAnonymized: the table after the call.
mapAnonymized(table, plain, anonymized) ==
    IF plain = <<>> \/ anonymized = EmptyAnonymized THEN table
    ELSE [t \in DOMAIN table \cup {plain} |-> IF t = plain THEN anonymized ELSE table[t]]

AnonIdle ==
    /\ AnonymizedStrings = [t \in {} |-> EmptyAnonymized]
    /\ AnonymizationCounter = 0
    /\ anonThreads = [t \in Threads |-> [pc |-> "idle", text |-> <<>>, salt |-> 0]]
    /\ anonReturned = {}

anonUnchanged ==
    UNCHANGED <<uploadVars, forceSave, modifiedTime, interp, remoteVars, factoryVars,
                localVars>>

\* Util::anonymize, first block: the lookup under AnonymizedMutex. A hit
\* returns the stored pseudonym; a miss leaves the lock and goes on to hash.
AnonymizeLookup(t, text, salt) ==
    /\ anonThreads[t].pc = "idle"
    /\ IF Mapped(text)
       THEN /\ anonReturned' = anonReturned \cup
                    {[text |-> text, salt |-> salt, result |-> AnonymizedStrings[text]]}
            /\ UNCHANGED anonThreads
       ELSE /\ AnonymizationCounter < MaxAnonymized
            /\ anonThreads' = [anonThreads EXCEPT ![t] =
                                    [pc |-> "hash", text |-> text, salt |-> salt]]
            /\ UNCHANGED anonReturned
    /\ UNCHANGED <<AnonymizedStrings, AnonymizationCounter>>
    /\ anonUnchanged

\* Util::anonymize, the rest: hash, AnonymizationCounter++, mapAnonymized, return.
AnonymizeInsert(t) ==
    /\ anonThreads[t].pc = "hash"
    /\ LET text == anonThreads[t].text
           salt == anonThreads[t].salt
           res == Pseudonym(AnonymizationCounter, SaltedHash(text, salt))
       IN /\ AnonymizationCounter' = AnonymizationCounter + 1
          /\ AnonymizedStrings' = mapAnonymized(AnonymizedStrings, text, res)
          /\ anonReturned' = anonReturned \cup
                                {[text |-> text, salt |-> salt, result |-> res]}
          /\ anonThreads' = [anonThreads EXCEPT ![t] =
                                  [pc |-> "idle", text |-> <<>>, salt |-> 0]]
    /\ anonUnchanged

\* A caller of Util::mapAnonymized other than anonymize (the backend maps user
\* ids and names to the pseudonyms it computed).
GivenNames == {Given("alias"), EmptyAnonymized}

MapAnonymized(plain, anonymized) ==
    /\ AnonymizedStrings' = mapAnonymized(AnonymizedStrings, plain, anonymized)
    /\ UNCHANGED <<AnonymizationCounter, anonThreads, anonReturned>>
    /\ anonUnchanged

AnonLookupStep == \E t \in Threads, text \in Texts, salt \in Salts : AnonymizeLookup(t, text, salt)

AnonInsertStep == \E t \in Threads : AnonymizeInsert(t)

AnonMapStep == \E plain \in Texts, anonymized \in GivenNames : MapAnonymized(plain, anonymized)

----------------------------------------------------------------------------
(* Asynchronous upload of the remote backend *)

NoInterp == [phase |-> "none", status |-> 0, body |-> NonJsonBody, isSaveAs |-> FALSE,
             isRename |-> FALSE, result |-> UploadResult("FAILED"), sent |-> FALSE]

NoCall == [outcome |-> "none", returned |-> FALSE]


\* The number of uploadAsync calls made so far, plus one.
NextCallId == Cardinality({i \in CallIds : calls[i].outcome # "none"}) + 1

\* WopiStorage::queryLocalFileToStorageAsyncUploadState
queryLocalFileToStorageAsyncUploadState ==
    IF uploadHttpSession THEN "Running" ELSE "None"

UploadInProgress_Ignored(session) == FALSE

\* The single-flight guard at the top of uploadLocalFileToStorageAsync.
UploadInProgress(session) == session

ScopedInvoke_Never(cbs, id, arg) == cbs

\* ~ScopedInvokeAsyncUploadCallback: invoke the call's callback with the argument set.
ScopedInvokeAsyncUploadCallback(cbs, id, arg) == [cbs EXCEPT ![id] = Append(@, arg)]

\* The X-WOPI-Override directive of an upload request.
UploadOverride(isSaveAs, isRename) ==
    IF ~isSaveAs /\ ~isRename THEN "PUT"
    ELSE IF isRename THEN "RENAME_FILE" ELSE "PUT_RELATIVE"

timestampHeader_AlsoWhenForced(isSaveAs, isRename, force, mtime) ==
    IF ~isSaveAs /\ ~isRename THEN <<mtime>> ELSE <<>>

\* The X-COOL-WOPI-Timestamp header: set in the normal-save branch unless
\* getForceSave(), to getFileInfo().getLastModifiedTime().
timestampHeader(isSaveAs, isRename, force, mtime) ==
    IF ~isSaveAs /\ ~isRename /\ ~force THEN <<mtime>> ELSE <<>>

\* The upload request built by uploadLocalFileToStorageAsync.
UploadRequest(id, isSaveAs, isRename) ==
    [id |-> id, isSaveAs |-> isSaveAs, isRename |-> isRename,
     path |-> IF isSaveAs \/ isRename THEN uri.path ELSE uri.path \o "/contents",
     override |-> UploadOverride(isSaveAs, isRename),
     lock |-> IF ~isSaveAs /\ lockCtx.supportsLocks THEN <<lockCtx.lockToken>> ELSE <<>>,
     timestamp |-> timestampHeader(isSaveAs, isRename, forceSave, modifiedTime)]

\* WopiStorage::uploadLocalFileToStorageAsync, up to the point where the request
\* has been handed to the poller (or the call has returned without dispatching).
\* dispatch: "ok", or an exception thrown before ("throwEarly") or after
\* ("throwLate") _uploadHttpSession was assigned.
uploadLocalFileToStorageAsync(fileGood, isSaveAs, isRename, dispatch) ==
    LET id == NextCallId
        error(reason) == AsyncUpload("Error", "FAILED")
    IN
    /\ owner.pc = "idle"
    /\ id \in CallIds
    /\ IF UploadInProgress(uploadHttpSession)
       THEN /\ calls' = [calls EXCEPT ![id] = [outcome |-> "rejected", returned |-> TRUE]]
            /\ callbacks' = ScopedInvokeAsyncUploadCallback(callbacks, id, error("rejected"))
            /\ UNCHANGED <<uploadHttpSession, inFlight, requestsSent, owner>>
       ELSE IF ~fileGood
       THEN /\ calls' = [calls EXCEPT ![id] = [outcome |-> "nofile", returned |-> TRUE]]
            /\ callbacks' = ScopedInvokeAsyncUploadCallback(callbacks, id, error("File not found."))
            /\ UNCHANGED <<uploadHttpSession, inFlight, requestsSent, owner>>
       ELSE IF dispatch # "ok"
       THEN /\ calls' = [calls EXCEPT ![id] = [outcome |-> "failed", returned |-> TRUE]]
            /\ callbacks' = ScopedInvokeAsyncUploadCallback(callbacks, id, error("Internal error."))
            /\ uploadHttpSession' = (dispatch = "throwLate")
            /\ UNCHANGED <<inFlight, requestsSent, owner>>
       ELSE /\ calls' = [calls EXCEPT ![id] = [outcome |-> "dispatched", returned |-> FALSE]]
            /\ uploadHttpSession' = TRUE
            /\ inFlight' = inFlight \cup {UploadRequest(id, isSaveAs, isRename)}
            /\ requestsSent' = requestsSent + 1
            /\ owner' = [pc |-> "returning", id |-> id]
            /\ UNCHANGED callbacks
    /\ UNCHANGED <<forceSave, modifiedTime, interp, remoteVars, factoryVars, localVars, anonVars>>

\* The return of a dispatching uploadLocalFileToStorageAsync: the scoped helper
\* invokes the callback with the Running state set after asyncRequest.
UploadAsyncReturn ==
    /\ owner.pc = "returning"
    /\ callbacks' = ScopedInvokeAsyncUploadCallback(callbacks, owner.id,
                                                    AsyncUpload("Running", "OK"))
    /\ calls' = [calls EXCEPT ![owner.id].returned = TRUE]
    /\ owner' = [pc |-> "idle", id |-> 0]
    /\ UNCHANGED <<uploadHttpSession, inFlight, requestsSent, forceSave, modifiedTime,
                   interp, remoteVars, factoryVars, localVars, anonVars>>

retire_KeepsSession(session) == session

\* _uploadHttpSession.reset(), the first statement of the finished handler.
retire(session) == FALSE

\* The finished handler, up to and including the call of the caller's callback
\* with the Complete state; frame is what the poller's thread is then in.
finishedCallbackIn(r, status, body, frame) ==
    LET details == [httpResponseCode |-> status, isSaveAs |-> r.isSaveAs,
                    isRename |-> r.isRename]
        res == handleUploadToStorageResponse(details, body, modifiedTime, forceSave)
    IN
    /\ r \in inFlight
    /\ uploadHttpSession' = retire(uploadHttpSession)
    /\ inFlight' = inFlight \ {r}
    /\ modifiedTime' = res.modifiedTime
    /\ forceSave' = res.forceSave
    /\ callbacks' = [callbacks EXCEPT ![r.id] =
                        Append(@, AsyncUpload("Complete", res.result.result))]
    /\ interp' = frame
    /\ UNCHANGED <<requestsSent, calls, owner, remoteVars, factoryVars, localVars, anonVars>>

\* The finishedCallback lambda of uploadLocalFileToStorageAsync, run by the poller
\* when the host's response to request r has arrived.
finishedCallback(r, status, body) == finishedCallbackIn(r, status, body, interp)

\* StorageBase::forceSave
forceSaveSet(newSave) ==
    /\ owner.pc = "idle"
    /\ forceSave # newSave
    /\ forceSave' = newSave
    /\ UNCHANGED <<uploadHttpSession, inFlight, requestsSent, calls, callbacks, owner,
                   modifiedTime, interp, remoteVars, factoryVars, localVars, anonVars>>

\* StorageBase::cancelLocalFileToStorageAsyncUpload, which the remote backend
\* does not override: nothing is done. lastOp keeps what a query returned then.
cancelLocalFileToStorageAsyncUpload ==
    /\ owner.pc = "idle"
    /\ lastOp' = [op |-> "cancel", host |-> 0, lock |-> FALSE, time |-> now,
                  requests |-> <<>>, outcome |-> queryLocalFileToStorageAsyncUploadState]
    /\ UNCHANGED <<uri, filename, fileUrl, isDownloaded, lockCtx, now, refreshSeconds>>
    /\ UNCHANGED <<uploadVars, forceSave, modifiedTime, interp, factoryVars, localVars,
                   anonVars>>

UploadAsyncCall ==
    \E fileGood \in BOOLEAN, isSaveAs \in BOOLEAN, isRename \in BOOLEAN,
       dispatch \in {"ok", "throwEarly", "throwLate"} :
        uploadLocalFileToStorageAsync(fileGood, isSaveAs, isRename, dispatch)

UploadFinished ==
    \E r \in inFlight, status \in UploadStatuses, body \in UploadBodies :
        finishedCallback(r, status, body)

ForceSaveCall == \E b \in BOOLEAN : forceSaveSet(b)

Init ==
    /\ uploadHttpSession = FALSE
    /\ inFlight = {}
    /\ requestsSent = 0
    /\ calls = [i \in CallIds |-> NoCall]
    /\ callbacks = [i \in CallIds |-> <<>>]
    /\ owner = [pc |-> "idle", id |-> 0]
    /\ forceSave = FALSE
    /\ modifiedTime \in {"", "t1"}
    /\ interp = NoInterp
    /\ RemoteInit
    /\ refreshSeconds = DefaultRefreshSeconds
    /\ Initialized(DefaultConfig)
    /\ LocalIdle
    /\ AnonIdle

Next ==
    \/ UploadAsyncCall
    \/ UploadAsyncReturn
    \/ UploadFinished
    \/ ForceSaveCall

Spec == Init /\ [][Next]_vars

\* Uploads with cancellation. The poller runs the finished handler of every
\* request handed to it, and a call that has dispatched returns.
CancelNext ==
    \/ Next
    \/ cancelLocalFileToStorageAsyncUpload

SpecCancel ==
    Init /\ [][CancelNext]_vars /\ WF_vars(UploadFinished) /\ WF_vars(UploadAsyncReturn)

----------------------------------------------------------------------------
(* Response interpretation on its own: one host response, taken either through
   the asynchronous completion or through the synchronous upload *)

\* The response is interpreted as the finishedCallback lambda does it.
InterpretResponse ==
    LET details == [httpResponseCode |-> interp.status, isSaveAs |-> interp.isSaveAs,
                    isRename |-> interp.isRename]
        res == handleUploadToStorageResponse(details, interp.body, modifiedTime, forceSave)
    IN
    /\ interp.phase = "input"
    /\ interp' = [interp EXCEPT !.phase = "async", !.result = res.result, !.sent = TRUE]
    /\ modifiedTime' = res.modifiedTime
    /\ forceSave' = res.forceSave
    /\ UNCHANGED <<uploadVars, remoteVars, factoryVars, localVars, anonVars>>

\* WopiStorage::uploadLocalFileToStorage, called while the host would answer an
\* upload with interp.status and interp.body.
uploadLocalFileToStorage ==
    /\ interp.phase = "input"
    /\ interp' = [interp EXCEPT !.phase = "sync", !.result = UploadResult("FAILED"),
                                !.sent = FALSE]
    /\ UNCHANGED <<uploadVars, modifiedTime, forceSave, remoteVars, factoryVars, localVars, anonVars>>

InterpInit ==
    /\ uploadHttpSession = FALSE
    /\ inFlight = {}
    /\ requestsSent = 0
    /\ calls = [i \in CallIds |-> NoCall]
    /\ callbacks = [i \in CallIds |-> <<>>]
    /\ owner = [pc |-> "idle", id |-> 0]
    /\ forceSave \in BOOLEAN
    /\ modifiedTime \in {"", "t1"}
    /\ \E status \in UploadStatuses, body \in UploadBodies,
          isSaveAs \in BOOLEAN, isRename \in BOOLEAN :
            interp = [phase |-> "input", status |-> status, body |-> body,
                      isSaveAs |-> isSaveAs, isRename |-> isRename,
                      result |-> UploadResult("FAILED"), sent |-> FALSE]
    /\ RemoteInit
    /\ refreshSeconds = DefaultRefreshSeconds
    /\ Initialized(DefaultConfig)
    /\ LocalIdle
    /\ AnonIdle

InterpNext ==
    \/ InterpretResponse
    \/ uploadLocalFileToStorage

SpecInterp == InterpInit /\ [][InterpNext]_vars

----------------------------------------------------------------------------
(* The host as the metadata fetch and the download see it *)

RedirectionLimit_OneMore == 21 + 1

\* static constexpr auto RedirectionLimit
RedirectionLimit == 21

MaxRedirects == 23

\* The host never stops redirecting.
Endless == -1

\* The statuses the code follows as redirects.
RedirectCodes == {301, 302, 307, 308}

IsRedirect(status) == status \in RedirectCodes

\* Terminal statuses of a metadata or download exchange.
TerminalStatuses == {200, 303, 403, 404}

\* The bodies of a CheckFileInfo response.
InfoBodies ==
    { NonJsonBody,
      JsonBody([BaseFileName |-> "doc.odt", OwnerId |-> "u1", LastModifiedTime |-> "t1",
                UserCanWrite |-> TRUE, SupportsLocks |-> TRUE]),
      JsonBody([BaseFileName |-> "doc.odt", SupportsLocks |-> FALSE]),
      JsonBody([BaseFileName |-> "doc.odt", LastModifiedTime |-> "t2", FileUrl |-> "/file"]) }

\* The Location of the k-th redirect of a host: the targets alternate, so an
\* endless host is a cycle of Location targets.
RedirectTarget(host, k) ==
    Uri(IF k % 2 = 0 THEN "/moved/a" ELSE "/moved/b", host.locTokens)

\* The host's answer to the k-th request (from 0) of one call.
HostResponse(host, k) ==
    IF host.redirects = Endless \/ k < host.redirects
    THEN [status |-> host.code, location |-> RedirectTarget(host, k), body |-> NonJsonBody]
    ELSE [status |-> host.status, location |-> NoUri, body |-> host.body]

Hosts(redirects, codes, statuses, bodies, locTokens) ==
    [redirects : redirects, code : codes, status : statuses, body : bodies,
     locTokens : locTokens]

\* Whether the catch (const BadRequestException&) clause catches exception e.
\* The error taxonomy lists BadRequest and Unauthorized as separate kinds.
CaughtAsBadRequest(e) == e = "BadRequest"

----------------------------------------------------------------------------
(* WopiStorage::getWOPIFileInfo *)

\* The result of a call: the requests sent (path and hop budget of each), the
\* URIs stored by setUri, the exception raised ("none": a record was returned)
\* and the body the record was parsed from.
CallResult(requests, uris, outcome, body) ==
    [requests |-> requests, uris |-> uris, outcome |-> outcome, body |-> body]

CheckFileInfoFailure_AlwaysUnauthorized(status) ==
    IF status = HTTP_OK THEN "none" ELSE "Unauthorized"

\* What the exchange throws for its last status: if (failed) { 403:
\* UnauthorizedRequestException; otherwise StorageConnectionException }.
CheckFileInfoFailure(status) ==
    IF status = HTTP_OK THEN "none"
    ELSE IF status = HTTP_FORBIDDEN THEN "Unauthorized"
    ELSE "StorageConnection"

RECURSIVE getWOPIFileInfoForUri(_, _, _, _)
\* WopiStorage::getWOPIFileInfoForUri, for the k-th request of the call.
getWOPIFileInfoForUri(host, uriObject, redirectLimit, k) ==
    LET resp == HostResponse(host, k)
        request == [path |-> uriObject.path, limit |-> redirectLimit]
    IN
    IF IsRedirect(resp.status) /\ redirectLimit > 0
    THEN LET inner == getWOPIFileInfoForUri(host, resp.location, redirectLimit - 1, k + 1)
             \* an exception of the nested call passes this frame's catch clauses;
             \* one caught as BadRequestException leaves an empty wopiResponse
             outcome == IF inner.outcome # "none" /\ CaughtAsBadRequest(inner.outcome)
                        THEN "Unauthorized" ELSE inner.outcome
         IN  CallResult(<<request>> \o inner.requests,
                        <<setUri(resp.location)>> \o inner.uris,
                        outcome, inner.body)
    ELSE LET thrown == CheckFileInfoFailure(resp.status)
         IN  IF thrown # "none" /\ ~CaughtAsBadRequest(thrown)
             THEN CallResult(<<request>>, <<>>, thrown, NonJsonBody)
             ELSE IF parseJSON(resp.body)
             THEN CallResult(<<request>>, <<>>, "none", resp.body)
             ELSE CallResult(<<request>>, <<>>, "Unauthorized", NonJsonBody)

\* WopiStorage::getWOPIFileInfo against the given host; rnd is what the random
\* generator returns if a lock token is made.
getWOPIFileInfo(host, rnd) ==
    LET res == getWOPIFileInfoForUri(host, uri, RedirectionLimit, 0)
        ok == res.outcome = "none"
    IN
    /\ uri' = IF res.uris # <<>> THEN res.uris[Len(res.uris)] ELSE uri
    /\ filename' = IF ok THEN getJSONValue(res.body, "BaseFileName", "") ELSE filename
    /\ modifiedTime' = IF ok THEN getJSONValue(res.body, "LastModifiedTime", "")
                       ELSE modifiedTime
    /\ lockCtx' = IF ok /\ getJSONValue(res.body, "SupportsLocks", FALSE)
                  THEN initSupportsLocks(lockCtx, rnd) ELSE lockCtx
    /\ fileUrl' = IF ok THEN getJSONValue(res.body, "FileUrl", "") ELSE fileUrl
    /\ lastOp' = [op |-> "fetch", host |-> host, lock |-> FALSE, time |-> now,
                  requests |-> res.requests, outcome |-> res.outcome]
    /\ UNCHANGED <<isDownloaded, now, refreshSeconds>>
    /\ UNCHANGED <<uploadVars, forceSave, interp, factoryVars, localVars, anonVars>>

----------------------------------------------------------------------------
(* WopiStorage::downloadDocument *)

RECURSIVE downloadDocument(_, _, _, _, _)
\* WopiStorage::downloadDocument, for the k-th request of the attempt; the free
\* space check fails at hop spaceLowAt (-1: never).
downloadDocument(host, uriObject, redirectLimit, k, spaceLowAt) ==
    LET resp == HostResponse(host, k)
        request == [path |-> uriObject.path, limit |-> redirectLimit]
    IN
    IF ~hasDiskSpace(k # spaceLowAt)
    THEN CallResult(<<>>, <<>>, "StorageSpaceLow", NonJsonBody)
    ELSE IF resp.status = HTTP_OK
    THEN CallResult(<<request>>, <<>>, "none", resp.body)
    ELSE IF IsRedirect(resp.status)
    THEN IF redirectLimit > 0
         THEN LET inner == downloadDocument(host, resp.location, redirectLimit - 1,
                                            k + 1, spaceLowAt)
              IN  CallResult(<<request>> \o inner.requests, <<>>, inner.outcome, inner.body)
         ELSE CallResult(<<request>>, <<>>, "StorageConnection", NonJsonBody)
    ELSE CallResult(<<request>>, <<>>, "StorageConnection", NonJsonBody)

\* One download attempt from the URI from, with a full hop budget.
DownloadAttempt(host, from, spaceLowAt) ==
    LET res == downloadDocument(host, from, RedirectionLimit, 0, spaceLowAt)
    IN
    /\ isDownloaded' = (isDownloaded \/ res.outcome = "none")
    /\ lastOp' = [op |-> "download", host |-> host, lock |-> FALSE, time |-> now,
                  requests |-> res.requests, outcome |-> res.outcome]
    /\ UNCHANGED <<uri, filename, fileUrl, lockCtx, now, refreshSeconds, modifiedTime>>
    /\ UNCHANGED <<uploadVars, forceSave, interp, factoryVars, localVars, anonVars>>

\* The canonical contents URL of the backend.
ContentsUri == [uri EXCEPT !.path = uri.path \o "/contents"]

----------------------------------------------------------------------------
(* WopiStorage::downloadStorageFileToLocal *)

\* One call of downloadDocument made by downloadStorageFileToLocal.
Attempt(from, res, spaceLowAt, host) ==
    [from |-> from.path, limit |-> RedirectionLimit, requests |-> res.requests,
     outcome |-> res.outcome, spaceLowAt |-> spaceLowAt, host |-> host]

fallsBack_AlsoWhenSpaceLow(outcome) == outcome # "none"

\* The catch clauses around the download from _fileUrl: StorageSpaceLowException
\* is rethrown, every other std::exception is logged and the default URL is used.
fallsBack(outcome) == outcome \notin {"none", "StorageSpaceLow"}

templateFallsBack_OnFailure(outcome) == outcome # "none"

\* The catch clause around the download of the template: every std::exception
\* is logged and rethrown.
templateFallsBack(outcome) == FALSE

\* WopiStorage::downloadStorageFileToLocal. firstHost answers the download from
\* the template or from _fileUrl, contentsHost the one from the contents URL;
\* firstLow and contentsLow are the hops at which the free space check fails.
wopiDownloadStorageFileToLocal(templateUri, firstHost, contentsHost, firstLow, contentsLow) ==
    LET firstFrom == IF templateUri # "" THEN Uri(templateUri, <<>>) ELSE Uri(fileUrl, <<>>)
        hasFirst == templateUri # "" \/ fileUrl # ""
        first == downloadDocument(firstHost, firstFrom, RedirectionLimit, 0, firstLow)
        hasSecond == IF templateUri # "" THEN templateFallsBack(first.outcome)
                     ELSE fileUrl = "" \/ fallsBack(first.outcome)
        second == downloadDocument(contentsHost, ContentsUri, RedirectionLimit, 0, contentsLow)
        attempts == (IF hasFirst THEN <<Attempt(firstFrom, first, firstLow, firstHost)>>
                     ELSE <<>>)
                    \o (IF hasSecond
                        THEN <<Attempt(ContentsUri, second, contentsLow, contentsHost)>>
                        ELSE <<>>)
        last == attempts[Len(attempts)]
    IN
    /\ isDownloaded' = (isDownloaded \/ last.outcome = "none")
    /\ lastOp' = [op |-> "materialize",
                  host |-> [template |-> templateUri, fileUrl |-> fileUrl,
                            attempts |-> attempts],
                  lock |-> FALSE, time |-> now,
                  requests |-> (IF hasFirst THEN first.requests ELSE <<>>)
                               \o (IF hasSecond THEN second.requests ELSE <<>>),
                  outcome |-> last.outcome]
    /\ UNCHANGED <<uri, filename, fileUrl, lockCtx, now, refreshSeconds, modifiedTime>>
    /\ UNCHANGED <<uploadVars, forceSave, interp, factoryVars, localVars, anonVars>>

----------------------------------------------------------------------------
(* Redirect following: metadata fetches and downloads against every host *)

\* Chains of every length around the hop budget, and an endless one.
ChainLengths == {Endless} \cup 0..2 \cup (RedirectionLimit - 1)..MaxRedirects

ChainBodies ==
    { NonJsonBody,
      JsonBody([BaseFileName |-> "doc.odt", OwnerId |-> "u1", LastModifiedTime |-> "t1"]) }

ChainHosts == Hosts(ChainLengths, RedirectCodes, TerminalStatuses, ChainBodies, {<<>>})

\* The caller fetches the metadata of a new backend.
FetchMetadata ==
    /\ lastOp.op = "none"
    /\ \E host \in ChainHosts, rnd \in RandomHex : getWOPIFileInfo(host, rnd)

\* The caller downloads the document, at once or after a successful fetch.
Download ==
    /\ lastOp.op = "none" \/ (lastOp.op = "fetch" /\ lastOp.outcome = "none")
    /\ \E host \in ChainHosts, spaceLowAt \in {-1, 1} :
          DownloadAttempt(host, ContentsUri, spaceLowAt)

RedirectInit ==
    /\ uploadHttpSession = FALSE
    /\ inFlight = {}
    /\ requestsSent = 0
    /\ calls = [i \in CallIds |-> NoCall]
    /\ callbacks = [i \in CallIds |-> <<>>]
    /\ owner = [pc |-> "idle", id |-> 0]
    /\ forceSave = FALSE
    /\ modifiedTime = ""
    /\ interp = NoInterp
    /\ RemoteInit
    /\ refreshSeconds = DefaultRefreshSeconds
    /\ Initialized(DefaultConfig)
    /\ LocalIdle
    /\ AnonIdle

RedirectNext ==
    \/ FetchMetadata
    \/ Download

SpecRedirect == RedirectInit /\ [][RedirectNext]_vars

----------------------------------------------------------------------------
(* Locking: LockContext and WopiStorage::updateLockState *)

\* Ticks of the steady clock per second.
TicksPerSecond == 2

MaxTime == 5

needsRefresh_Strict(ctx, t, refresh) ==
    /\ ctx.supportsLocks
    /\ ctx.isLocked
    /\ refresh > 0
    /\ ((t - ctx.lastLockTime) \div TicksPerSecond) > refresh

\* LockContext::needsRefresh at time t, with refresh the configured interval.
\* duration_cast<seconds> truncates; the steady clock never runs backwards.
needsRefresh(ctx, t, refresh) ==
    /\ ctx.supportsLocks
    /\ ctx.isLocked
    /\ refresh > 0
    /\ ((t - ctx.lastLockTime) \div TicksPerSecond) >= refresh

\* What a lock or unlock request meets: a response, with or without the
\* X-WOPI-LockFailureReason header, or a transport exception.
LockResponses ==
    [kind : {"response"}, status : {200, 409}, reason : {"", "Locked by another"}]
        \cup {[kind |-> "exception", status |-> 0, reason |-> ""]}

clearReason_Keeps(ctx) == ctx

\* lockCtx._lockFailureReason.clear(), the first statement of updateLockState.
clearReason(ctx) == [ctx EXCEPT !.lockFailureReason = ""]

lockingUnsupported_Never(ctx) == FALSE

\* The early return of updateLockState: if (!lockCtx._supportsLocks) return true.
lockingUnsupported(ctx) == ~ctx.supportsLocks

lockRefused_Unlocks(ctx, resp) ==
    [ctx EXCEPT !.isLocked = FALSE,
                !.lockFailureReason = IF resp.reason # "" THEN resp.reason ELSE @]

\* The LockContext after a response other than 200: the failure reason of the
\* X-WOPI-LockFailureReason header is recorded when there is one.
lockRefused(ctx, resp) ==
    IF resp.reason # "" THEN [ctx EXCEPT !.lockFailureReason = resp.reason] ELSE ctx

\* LocalStorage::updateLockState
LocalUpdateLock ==
    \E lock \in BOOLEAN :
        /\ lastOp' = [op |-> "localUpdateLock", host |-> 0, lock |-> lock, time |-> now,
                      requests |-> <<>>, outcome |-> "true"]
        /\ UNCHANGED <<uri, filename, fileUrl, isDownloaded, lockCtx, now, refreshSeconds,
                       modifiedTime>>
        /\ UNCHANGED <<uploadVars, forceSave, interp, factoryVars, localVars, anonVars>>

\* WopiStorage::updateLockState
lockGranted_Toggles(ctx, lock, time) ==
    [ctx EXCEPT !.isLocked = ~ctx.isLocked, !.lastLockTime = time]

\* The 200 branch of updateLockState: _isLocked = lock, _lastLockTime = now.
lockGranted(ctx, lock, time) ==
    [ctx EXCEPT !.isLocked = lock, !.lastLockTime = time]

\* Whether the operation recorded is an updateLockState(lock) that the host
\* answered with 200.
AnsweredOk(op, lock) ==
    /\ op.op = "updateLock"
    /\ op.requests # <<>>
    /\ op.host.kind = "response"
    /\ op.host.status = HTTP_OK
    /\ op.lock = lock

\* lastOp records the response together with whether the call before was the
\* same request, answered with 200.
updateLockState(lock, resp) ==
    LET cleared == clearReason(lockCtx)
        request == [path |-> uri.path, override |-> IF lock THEN "LOCK" ELSE "UNLOCK",
                    lock |-> lockCtx.lockToken]
        done(sent, response, result) ==
            [op |-> "updateLock",
             host |-> IF sent = <<>> THEN 0
                      ELSE [kind |-> response.kind, status |-> response.status,
                            reason |-> response.reason,
                            again |-> AnsweredOk(lastOp, lock)],
             lock |-> lock, time |-> now,
             requests |-> sent, outcome |-> result]
    IN
    /\ IF lockingUnsupported(lockCtx)
       THEN /\ lockCtx' = cleared
            /\ lastOp' = done(<<>>, 0, "true")
       ELSE IF resp.kind = "exception"
       THEN /\ lockCtx' = cleared
            /\ lastOp' = done(<<request>>, resp, "false")
       ELSE IF resp.status = HTTP_OK
       THEN /\ lockCtx' = lockGranted(cleared, lock, now)
            /\ lastOp' = done(<<request>>, resp, "true")
       ELSE /\ lockCtx' = lockRefused(cleared, resp)
            /\ lastOp' = done(<<request>>, resp, "false")
    /\ UNCHANGED <<uri, filename, fileUrl, isDownloaded, now, refreshSeconds, modifiedTime>>
    /\ UNCHANGED <<uploadVars, forceSave, interp, factoryVars, localVars, anonVars>>

\* A direct call of LockContext::initSupportsLocks.
InitSupportsLocks ==
    \E rnd \in RandomHex :
        /\ lockCtx' = initSupportsLocks(lockCtx, rnd)
        /\ lastOp' = [op |-> "initSupportsLocks", host |-> rnd, lock |-> FALSE,
                      time |-> now, requests |-> <<>>, outcome |-> "none"]
        /\ UNCHANGED <<uri, filename, fileUrl, isDownloaded, now, refreshSeconds,
                       modifiedTime>>
        /\ UNCHANGED <<uploadVars, forceSave, interp, factoryVars, localVars, anonVars>>

\* Hosts that answer CheckFileInfo at once, with or without lock support.
LockHosts ==
    Hosts({0}, {302}, {200, 404},
          {b \in InfoBodies : b.json /\ "SupportsLocks" \in DOMAIN b.obj}, {<<>>})

LockFetch ==
    \E host \in LockHosts, rnd \in RandomHex : getWOPIFileInfo(host, rnd)

UpdateLock ==
    \E lock \in BOOLEAN, resp \in LockResponses : updateLockState(lock, resp)

\* The steady clock advances.
Tick ==
    /\ now < MaxTime
    /\ now' = now + 1
    /\ UNCHANGED <<uri, filename, fileUrl, isDownloaded, lockCtx, refreshSeconds, lastOp,
                   modifiedTime>>
    /\ UNCHANGED <<uploadVars, forceSave, interp, factoryVars, localVars, anonVars>>

\* The values of storage.wopi.locking.refresh tried, in seconds.
RefreshIntervals == {-1, 0, 1, 2}

LockInit ==
    /\ uploadHttpSession = FALSE
    /\ inFlight = {}
    /\ requestsSent = 0
    /\ calls = [i \in CallIds |-> NoCall]
    /\ callbacks = [i \in CallIds |-> <<>>]
    /\ owner = [pc |-> "idle", id |-> 0]
    /\ forceSave = FALSE
    /\ modifiedTime = ""
    /\ interp = NoInterp
    /\ RemoteInit
    /\ refreshSeconds \in RefreshIntervals
    /\ Initialized(DefaultConfig)
    /\ LocalIdle
    /\ AnonIdle

LockNext ==
    \/ LockFetch
    \/ UpdateLock
    \/ LocalUpdateLock
    \/ Tick

SpecLock == LockInit /\ [][LockNext]_vars

\* An upload of an existing file, as a save or as a save-as.
TokenUpload ==
    \E isSaveAs \in BOOLEAN : uploadLocalFileToStorageAsync(TRUE, isSaveAs, FALSE, "ok")

\* The host accepts the upload.
TokenUploadFinished ==
    \E r \in inFlight : finishedCallback(r, HTTP_OK, NonJsonBody)

\* Every caller of a LockContext: fetches, lock updates and uploads.
TokenNext ==
    \/ InitSupportsLocks
    \/ LockFetch
    \/ UpdateLock
    \/ TokenUpload
    \/ UploadAsyncReturn
    \/ TokenUploadFinished

SpecToken == RedirectInit /\ [][TokenNext]_vars

----------------------------------------------------------------------------
(* The factory under every configuration *)

FactoryInit ==
    /\ uploadHttpSession = FALSE
    /\ inFlight = {}
    /\ requestsSent = 0
    /\ calls = [i \in CallIds |-> NoCall]
    /\ callbacks = [i \in CallIds |-> <<>>]
    /\ owner = [pc |-> "idle", id |-> 0]
    /\ forceSave = FALSE
    /\ modifiedTime = ""
    /\ interp = NoInterp
    /\ RemoteInit
    /\ refreshSeconds = DefaultRefreshSeconds
    /\ \E cfg \in Configs : Initialized(cfg)
    /\ LocalIdle
    /\ AnonIdle

FactoryNext == Create

SpecFactory == FactoryInit /\ [][FactoryNext]_vars

----------------------------------------------------------------------------
(* Alias resolution under the alias configurations *)

AliasInit ==
    /\ uploadHttpSession = FALSE
    /\ inFlight = {}
    /\ requestsSent = 0
    /\ calls = [i \in CallIds |-> NoCall]
    /\ callbacks = [i \in CallIds |-> <<>>]
    /\ owner = [pc |-> "idle", id |-> 0]
    /\ forceSave = FALSE
    /\ modifiedTime = ""
    /\ interp = NoInterp
    /\ RemoteInit
    /\ refreshSeconds = DefaultRefreshSeconds
    /\ \E cfg \in AliasConfigs : Initialized(cfg)
    /\ LocalIdle
    /\ AnonIdle

AliasNext == ResolveStep

SpecAlias == AliasInit /\ [][AliasNext]_vars

----------------------------------------------------------------------------
(* The host and alias checks called on their own *)

CheckConfigs == {cfg \in Configs : ~cfg.filesystemAllow}

HostCheckInit ==
    /\ uploadHttpSession = FALSE
    /\ inFlight = {}
    /\ requestsSent = 0
    /\ calls = [i \in CallIds |-> NoCall]
    /\ callbacks = [i \in CallIds |-> <<>>]
    /\ owner = [pc |-> "idle", id |-> 0]
    /\ forceSave = FALSE
    /\ modifiedTime = ""
    /\ interp = NoInterp
    /\ RemoteInit
    /\ refreshSeconds = DefaultRefreshSeconds
    /\ \E cfg \in CheckConfigs : Initialized(cfg)
    /\ LocalIdle
    /\ AnonIdle

HostCheckNext == HostCheckStep \/ AliasCheckStep

SpecHostCheck == HostCheckInit /\ [][HostCheckNext]_vars

----------------------------------------------------------------------------
(* Materializing the document locally: both backends *)

\* Hosts with short redirect chains, answering a download with 200 or 404.
ShortHosts == Hosts(0..2, {302}, {200, 404}, {NonJsonBody}, {<<>>})

\* Hosts answering CheckFileInfo, with and without a FileUrl.
InfoHosts == Hosts({0, 1}, {302}, {200, 404}, InfoBodies, {<<>>})

TemplateUris == {"", "/template"}

\* The hops of one download at which the free space may run out (-1: never).
SpaceLowHops == {-1, 0, 1}

MaterializeFetch ==
    /\ lastOp.op = "none"
    /\ \E host \in InfoHosts, rnd \in RandomHex : getWOPIFileInfo(host, rnd)

\* The caller materializes a new backend once, at once or after the fetch.
Materialize ==
    /\ lastOp.op \in {"none", "fetch"}
    /\ \E templateUri \in TemplateUris, firstHost \in ShortHosts, contentsHost \in ShortHosts,
          firstLow \in SpaceLowHops, contentsLow \in SpaceLowHops :
           wopiDownloadStorageFileToLocal(templateUri, firstHost, contentsHost,
                                          firstLow, contentsLow)

MaterializeInit ==
    /\ uploadHttpSession = FALSE
    /\ inFlight = {}
    /\ requestsSent = 0
    /\ calls = [i \in CallIds |-> NoCall]
    /\ callbacks = [i \in CallIds |-> <<>>]
    /\ owner = [pc |-> "idle", id |-> 0]
    /\ forceSave = FALSE
    /\ modifiedTime = ""
    /\ interp = NoInterp
    /\ RemoteInit
    /\ refreshSeconds = DefaultRefreshSeconds
    /\ Initialized(DefaultConfig)
    /\ \E temporary \in BOOLEAN, exists \in BOOLEAN : NewLocal(temporary, exists)
    /\ AnonIdle

MaterializeNext ==
    \/ MaterializeFetch
    \/ Materialize
    \/ LocalDownload

SpecMaterialize == MaterializeInit /\ [][MaterializeNext]_vars

----------------------------------------------------------------------------
(* Anonymization on its own *)

AnonNext == AnonLookupStep \/ AnonInsertStep \/ AnonMapStep

SpecAnon == RedirectInit /\ [][AnonNext]_vars

----------------------------------------------------------------------------
(* Claims about the asynchronous upload *)

\* C1: an uploadAsync call made while an upload is Running dispatches no second
\* request, leaves the in-flight upload untouched and invokes that call's
\* callback with Error; at most one upload request is ever in flight.
C1_SingleFlight ==
    /\ [](Cardinality(inFlight) <= 1)
    /\ [][(uploadHttpSession /\ NextCallId' = NextCallId + 1) =>
             /\ requestsSent' = requestsSent
             /\ inFlight' = inFlight
             /\ uploadHttpSession'
             /\ callbacks'[NextCallId] = <<AsyncUpload("Error", "FAILED")>>
             /\ \A i \in CallIds \ {NextCallId} : callbacks'[i] = callbacks[i]]_vars

C1_Witness ==
    \E i \in CallIds : calls[i].outcome = "rejected" /\ inFlight # {}

\* How often the callback of call i received the state st.
Received(i, st) ==
    Cardinality({k \in 1..Len(callbacks[i]) : callbacks[i][k].state = st})

\* The request of call i was dispatched and its response has been handled.
Completed(i) ==
    calls[i].outcome = "dispatched" /\ ~\E r \in inFlight : r.id = i

\* C2 (as claimed): the callback of every uploadAsync call is invoked exactly
\* once, and with a terminal state (Error or Complete).
C2_ExactlyOnceTerminal ==
    \A i \in CallIds :
        /\ Len(callbacks[i]) <= 1
        /\ \A k \in 1..Len(callbacks[i]) : callbacks[i][k].state \in {"Error", "Complete"}
        /\ (calls[i].returned /\ calls[i].outcome # "dispatched") => Len(callbacks[i]) = 1

\* C2 (amended): a call that does not dispatch (single-flight rejection, missing
\* file, failed dispatch) gets exactly one notification, Error, at its return; a
\* dispatched call gets exactly one Running notification at its return and
\* exactly one Complete notification when its upload finishes, and nothing else.
C2_CallbackPerCall ==
    \A i \in CallIds :
        /\ calls[i].outcome = "none" => callbacks[i] = <<>>
        /\ calls[i].outcome \in {"rejected", "nofile", "failed"} =>
              /\ calls[i].returned
              /\ callbacks[i] = <<AsyncUpload("Error", "FAILED")>>
        /\ calls[i].outcome = "dispatched" =>
              /\ Received(i, "Running") = (IF calls[i].returned THEN 1 ELSE 0)
              /\ Received(i, "Complete") = (IF Completed(i) THEN 1 ELSE 0)
              /\ Len(callbacks[i]) = Received(i, "Running") + Received(i, "Complete")

C2_Witness ==
    \E i, j \in CallIds :
        /\ calls[i].outcome = "dispatched" /\ calls[i].returned /\ Completed(i)
        /\ Len(callbacks[i]) = 2
        /\ calls[j].outcome \in {"rejected", "nofile", "failed"}

C4_SyncMatchesInterpretation ==
    interp.phase = "sync" =>
        /\ interp.sent
        /\ interp.result =
              handleUploadToStorageResponse(
                  [httpResponseCode |-> interp.status, isSaveAs |-> interp.isSaveAs,
                   isRename |-> interp.isRename],
                  interp.body, modifiedTime, forceSave).result

----------------------------------------------------------------------------
(* Claims about redirect following *)

\* C5: for a chain of n redirect responses followed by a 200 (with a JSON body
\* for the metadata fetch, with enough disk space for the download), the fetch
\* and the download succeed on the final OK when n <= 21 and fail with
\* StorageConnection when n > 21.
C5_RedirectChains ==
    (/\ lastOp.op \in {"fetch", "download"}
     /\ lastOp.host.redirects >= 0
     /\ lastOp.host.status = 200
     /\ lastOp.op = "fetch" => lastOp.host.body.json
     /\ lastOp.outcome # "StorageSpaceLow")
    => LET n == lastOp.host.redirects IN
       /\ n <= 21 => /\ lastOp.outcome = "none"
                     /\ Len(lastOp.requests) = n + 1
                     /\ lastOp.op = "fetch" => filename = "doc.odt"
                     /\ lastOp.op = "download" => isDownloaded
       /\ n > 21 => lastOp.outcome = "StorageConnection"

C5_Witness ==
    /\ lastOp.op = "download"
    /\ lastOp.host.redirects = 21
    /\ lastOp.host.status = 200
    /\ lastOp.outcome = "none"
    /\ Len(lastOp.requests) = 22
    /\ filename = "doc.odt"

\* C6: whatever the host answers, a cycle of Location targets included, a fetch
\* or a download attempt sends at most 22 requests, the hop budget of each
\* request is one less than that of the request before it, and a redirect
\* received with budget zero ends the attempt with a raised failure.
C6_HopBudget ==
    lastOp.op \in {"fetch", "download"} =>
        LET r == lastOp.requests
            last == HostResponse(lastOp.host, Len(r) - 1)
        IN
        /\ Len(r) <= 22
        /\ \A i \in 1..Len(r) : r[i].limit = 21 - (i - 1)
        /\ (Len(r) = 22 /\ last.status \in {301, 302, 307, 308})
              => lastOp.outcome \in {"StorageConnection", "Unauthorized"}

C6_Witness ==
    /\ lastOp.op = "fetch"
    /\ lastOp.host.redirects = Endless
    /\ Len(lastOp.requests) = 22
    /\ lastOp.requests[22].limit = 0
    /\ lastOp.outcome = "StorageConnection"

----------------------------------------------------------------------------
(* Claims about the factory *)

\* The authority of u is the host or an alias of a configured alias group.
InAliasGroup(u) ==
    \E i \in 1..Len(config.groups) :
        \/ getAuthority(u) = getAuthority(config.groups[i].host)
        \/ \E j \in 1..Len(config.groups[i].aliases) :
              getAuthority(u) = getAuthority(config.groups[i].aliases[j])

----------------------------------------------------------------------------
(* Claims about locking *)

\* C9: the lock token is generated by the first initSupportsLocks and never
\* changes afterwards, whatever sequence of initSupportsLocks, fetchMetadata,
\* updateLock and upload calls follows; every request that carries a lock token
\* carries that one.
C9_TokenStable ==
    /\ [](\A r \in inFlight : r.lock \in {<<>>, <<lockCtx.lockToken>>})
    /\ [](lastOp.op = "updateLock" =>
            \A i \in 1..Len(lastOp.requests) : lastOp.requests[i].lock = lockCtx.lockToken)
    /\ [][lockCtx.lockToken # NoToken => lockCtx'.lockToken = lockCtx.lockToken]_vars
    /\ [][(~lockCtx.supportsLocks /\ lockCtx'.supportsLocks) =>
             lockCtx'.lockToken # NoToken]_vars

C9_Witness ==
    /\ lastOp.op = "initSupportsLocks"
    /\ lockCtx.supportsLocks
    /\ lockCtx.lockToken.prefix = "cool-lock"
    /\ lockCtx.lockToken.suffix # lastOp.host
    /\ \E r \in inFlight : r.lock = <<lockCtx.lockToken>>

\* C10: needsRefresh(now) is true iff locks are supported, the context is
\* locked, the refresh interval is > 0 and now - lastLockTime >= the interval;
\* after a successful lock at time t, while the lock is held, it is false at
\* every now < t + interval and true at every now >= t + interval.
C10_NeedsRefresh ==
    /\ needsRefresh(lockCtx, now, refreshSeconds) <=>
          (/\ lockCtx.supportsLocks
           /\ lockCtx.isLocked
           /\ refreshSeconds > 0
           /\ now - lockCtx.lastLockTime >= refreshSeconds * TicksPerSecond)
    /\ (/\ lastOp.op = "updateLock"
        /\ lastOp.lock
        /\ lastOp.requests # <<>>
        /\ lastOp.host.status = 200
        /\ refreshSeconds > 0)
       => (needsRefresh(lockCtx, now, refreshSeconds) <=>
              now >= lastOp.time + refreshSeconds * TicksPerSecond)

C10_Witness ==
    /\ lastOp.op = "updateLock"
    /\ lastOp.lock
    /\ lastOp.requests # <<>>
    /\ lastOp.host.status = 200
    /\ refreshSeconds = 2
    /\ now = lastOp.time + refreshSeconds * TicksPerSecond
    /\ needsRefresh(lockCtx, now, refreshSeconds)

\* C11: when the lock context does not support locks, or the backend is Local,
\* updateLock returns true, sends no request and leaves isLocked and
\* lastLockTime as they were.
C11_UnsupportedNoOp ==
    [][(\/ lastOp'.op = "updateLock" /\ ~lockCtx.supportsLocks
        \/ lastOp'.op = "localUpdateLock")
       => /\ lastOp'.outcome = "true"
          /\ lastOp'.requests = <<>>
          /\ lockCtx'.isLocked = lockCtx.isLocked
          /\ lockCtx'.lastLockTime = lockCtx.lastLockTime
          /\ lockCtx'.supportsLocks = lockCtx.supportsLocks]_vars

C11_Witness ==
    /\ lastOp.op = "updateLock"
    /\ lastOp.lock
    /\ lastOp.time > 0
    /\ ~lockCtx.supportsLocks
    /\ lastOp.outcome = "true"
    /\ lastOp.requests = <<>>
    /\ ~lockCtx.isLocked

\* C12: a remote updateLock request that fails, by a status other than 200 or
\* by a transport error, returns false without raising and leaves isLocked and
\* lastLockTime as they were, for a lock and for an unlock request.
C12_FailureKeepsLockState ==
    [][(/\ lastOp'.op = "updateLock"
        /\ lastOp'.requests # <<>>
        /\ (lastOp'.host.kind = "exception" \/ lastOp'.host.status # 200))
       => /\ lastOp'.outcome = "false"
          /\ lockCtx'.isLocked = lockCtx.isLocked
          /\ lockCtx'.lastLockTime = lockCtx.lastLockTime]_vars

C12_Witness ==
    /\ lastOp.op = "updateLock"
    /\ ~lastOp.lock
    /\ lastOp.requests # <<>>
    /\ lastOp.host.status = 409
    /\ lastOp.outcome = "false"
    /\ lockCtx.isLocked
    /\ lockCtx.lastLockTime < lastOp.time

----------------------------------------------------------------------------
(* Claims about materializing the document *)

MaterializedViaFileUrl ==
    /\ lastOp.op = "materialize"
    /\ lastOp.host.template = ""
    /\ lastOp.host.fileUrl # ""

\* C13: without a template and with a file URL from the metadata, a download
\* from the file URL that fails other than by low space is followed by a
\* download from the contents URL with the full hop budget, whose outcome is
\* the outcome of the call; one that fails by low space ends the call with
\* StorageSpaceLow and no request goes to the contents URL.
C13_FileUrlFallback ==
    MaterializedViaFileUrl =>
        LET attempts == lastOp.host.attempts
            first == attempts[1]
        IN
        /\ first.from = lastOp.host.fileUrl
        /\ first.outcome \notin {"none", "StorageSpaceLow"} =>
              /\ Len(attempts) = 2
              /\ attempts[2].from = ContentsUri.path
              /\ attempts[2].limit = RedirectionLimit
              /\ attempts[2].requests # <<>> =>
                    attempts[2].requests[1] =
                        [path |-> ContentsUri.path, limit |-> RedirectionLimit]
              /\ lastOp.outcome = attempts[2].outcome
        /\ first.outcome = "StorageSpaceLow" =>
              /\ Len(attempts) = 1
              /\ lastOp.outcome = "StorageSpaceLow"
              /\ \A i \in 1..Len(lastOp.requests) :
                    lastOp.requests[i].path # ContentsUri.path

\* Both cases in turn: the file URL's chain used up hops and failed with 404,
\* the contents URL was then requested with the full budget; and, in another
\* call, the space ran out after the first hop of the file URL.
C13_Witness ==
    /\ MaterializedViaFileUrl
    /\ LET attempts == lastOp.host.attempts
       IN  /\ attempts[1].outcome = "StorageConnection"
           /\ Len(attempts[1].requests) = 3
           /\ Len(attempts) = 2
           /\ attempts[2].outcome = "none"
           /\ attempts[2].requests[1].limit = RedirectionLimit

C13_WitnessSpaceLow ==
    /\ MaterializedViaFileUrl
    /\ lastOp.host.attempts[1].outcome = "StorageSpaceLow"
    /\ Len(lastOp.host.attempts[1].requests) = 1

\* Whether the download reaches hop k against the host, k redirects after its start.
HopReached(host, k) ==
    k >= 0 /\ k <= RedirectionLimit /\ (host.redirects = Endless \/ host.redirects >= k)

\* C14: when the free-space check fails, the call raises StorageSpaceLow before
\* anything is written: the remote backend has sent the requests of the earlier
\* hops only and none for the hop of the failed check, the local backend has
\* tried no move, link or copy and has left both files as they were.
C14_SpaceLowBeforeWriting ==
    /\ lastOp.op = "materialize" =>
          \A i \in 1..Len(lastOp.host.attempts) :
              LET a == lastOp.host.attempts[i]
              IN  HopReached(a.host, a.spaceLowAt) =>
                      /\ a.outcome = "StorageSpaceLow"
                      /\ Len(a.requests) = a.spaceLowAt
                      /\ i = Len(lastOp.host.attempts)
                      /\ lastOp.outcome = "StorageSpaceLow"
    /\ (lastOp.op = "localDownload" /\ lastOp.host.before.public /\ ~lastOp.host.spaceOk) =>
          /\ lastOp.outcome = "StorageSpaceLow"
          /\ lastOp.requests = <<>>
          /\ localFiles = lastOp.host.before

\* The local backend, holding a temporary file, found the space low.
C14_Witness ==
    /\ lastOp.op = "localDownload"
    /\ lastOp.outcome = "StorageSpaceLow"
    /\ isTemporaryFile
    /\ localFiles.jailed = "none"

\* The remote backend found the space low at the second hop of the contents URL.
C14_WitnessRemote ==
    /\ lastOp.op = "materialize"
    /\ lastOp.outcome = "StorageSpaceLow"
    /\ Len(lastOp.host.attempts) = 2
    /\ lastOp.host.attempts[2].spaceLowAt = 1
    /\ Len(lastOp.host.attempts[2].requests) = 1

----------------------------------------------------------------------------
(* Claims about anonymization *)

\* C15: any two anonymize calls with the same text and salt have returned the
\* same pseudonym, whatever was called in between.
C15_RepeatCallsAgree ==
    \A a \in anonReturned, b \in anonReturned :
        (a.text = b.text /\ a.salt = b.salt) => a.result = b.result

\* The empty string has been anonymized twice.
C15_EmptyTwice ==
    Cardinality({r \in anonReturned : r.text = <<>> /\ r.salt = 0}) >= 2

----------------------------------------------------------------------------
(* Claims about cancellation *)

\* C16: once an upload reported as Running has been cancelled, the state the
\* backend reports eventually is no longer Running.
C16_CancelResolves ==
    (lastOp.op = "cancel" /\ lastOp.outcome = "Running")
        ~> (queryLocalFileToStorageAsyncUploadState # "Running")

\* A cancelled backend that reports Running with no request handed to the poller.
C16_StuckRunning ==
    /\ lastOp.op = "cancel"
    /\ lastOp.outcome = "Running"
    /\ uploadHttpSession
    /\ inFlight = {}

----------------------------------------------------------------------------
(* Claims about alias resolution *)

\* Whether the authority belongs to the alias group: it is the group's host or
\* one of its aliases, literally or as a pattern.
BelongsToGroup(authority, group) ==
    \/ authority = getAuthority(group.host)
    \/ \E j \in 1..Len(group.aliases) :
          \/ authority = getAuthority(group.aliases[j])
          \/ RegexFullMatch(getAuthority(group.aliases[j]), authority)

\* C17: outside compat mode, two resolved URIs with the same scheme and path
\* whose authorities belong to one configured alias group have the same result.
C17_OneGroupOneUri ==
    Lower(AliasMode(config)) # "compat" =>
        \A a \in resolved, b \in resolved :
            ( /\ a.uri.scheme = b.uri.scheme
              /\ a.uri.path = b.uri.path
              /\ \E i \in 1..Len(config.groups) :
                    /\ BelongsToGroup(getAuthority(a.uri), config.groups[i])
                    /\ BelongsToGroup(getAuthority(b.uri), config.groups[i]) )
            => a.result = b.result

\* An alias matched by the pattern of a group has been resolved to the bare path.
C17_PatternAliasBare ==
    /\ config.groups = <<PatternGroup>>
    /\ Lower(AliasMode(config)) # "compat"
    /\ [uri |-> HostUri("https", "b.example", "", "/p"), result |-> "/p"] \in resolved
    /\ [uri |-> HostUri("https", "main.test", "", "/p"),
        result |-> "https://main.test:443/p"] \in resolved

\* C18: the same URI gets the same result on every call, whatever was resolved
\* before; and no alias is stored with two canonical authorities.
C18_ResolutionPure ==
    /\ \A a \in resolved, b \in resolved : a.uri = b.uri => a.result = b.result
    /\ \A e \in AliasHosts, f \in AliasHosts : e.alias = f.alias => e.real = f.real

\* The literal groups alone: an alias listed in two groups resolves to the host
\* of the group listed first.
C18_FirstGroupWins ==
    /\ config.groups = <<OtherGroup, LiteralGroup>>
    /\ Lower(AliasMode(config)) # "compat"
    /\ [uri |-> HostUri("https", "b.example", "", "/p"),
        result |-> "https://other.test:443/p"] \in resolved

----------------------------------------------------------------------------
(* Claims about the metadata fetch *)

\* The last response of the fetch recorded in lastOp.
FetchLastResponse == HostResponse(lastOp.host, Len(lastOp.requests) - 1)

----------------------------------------------------------------------------
(* Claims about the choice of backend *)

\* C20: create with a relative or file URI returns a Local backend exactly when
\* filesystem storage is enabled or takeOwnership is set, and raises BadRequest
\* otherwise, whatever the remote settings; with any other URI it raises
\* BadRequest when remote access is disabled.
C20_BackendByScheme ==
    lastCreate.outcome # "none" =>
        LET u == lastCreate.uri
            isFile == isRelative(u) \/ u.scheme = "file"
        IN  /\ isFile =>
                  /\ lastCreate.outcome =
                        (IF FilesystemEnabled \/ lastCreate.takeOwnership
                         THEN "LocalStorage" ELSE "BadRequest")
            /\ (~isFile /\ ~WopiEnabled) => lastCreate.outcome = "BadRequest"

\* A file URI with takeOwnership, filesystem storage disabled and remote access
\* enabled: a Local backend.
C20_Witness ==
    /\ lastCreate.uri.scheme = "file"
    /\ lastCreate.takeOwnership
    /\ ~FilesystemEnabled
    /\ WopiEnabled
    /\ lastCreate.outcome = "LocalStorage"

----------------------------------------------------------------------------
(* Claims about the host and alias checks *)

\* The allowedAlias calls among the checks made so far, in order.
AliasChecks == SelectSeq(checks, LAMBDA c : c.op = "allowedAlias")

\* The authority matches a member of the set, exactly or as a pattern.
MatchesMember(set, authority) ==
    \E h \in set : h = authority \/ RegexFullMatch(h, authority)

\* What holds of the alias checks with alias groups in effect or in compat mode.
AliasChecksByTable ==
    LET cs == AliasChecks
    IN  /\ (Lower(AliasMode(config)) # "compat" /\ AllHosts # {}) =>
              \A i \in 1..Len(cs) :
                  /\ cs[i].ok <=> MatchesMember(AllHosts, cs[i].arg)
                  /\ cs[i].firstAfter = ""
        /\ Lower(AliasMode(config)) = "compat" => \A i \in 1..Len(cs) : cs[i].ok

C22_AllowAndNotDeny ==
    \A i \in 1..Len(checks) :
        checks[i].op = "allowedWopiHost" =>
            ( checks[i].ok <=>
                ( /\ WopiEnabled
                  /\ MatchesMember(WopiHosts.allowed, checks[i].arg)
                  /\ ~MatchesMember(WopiHosts.denied, checks[i].arg) ) )

\* With remote access enabled, a.example (matching the allow pattern only) was
\* accepted and b.example (matching the allow and the deny pattern) refused.
C22_Witness ==
    /\ WopiEnabled
    /\ WopiHosts.denied # {}
    /\ Len(checks) >= 2
    /\ checks[1] = [op |-> "allowedWopiHost", arg |-> "a.example", ok |-> TRUE,
                    firstBefore |-> "", firstAfter |-> ""]
    /\ checks[2].op = "allowedWopiHost"
    /\ checks[2].arg = "b.example"
    /\ MatchesMember(WopiHosts.allowed, "b.example")
    /\ ~checks[2].ok

----------------------------------------------------------------------------
(* Claims about the forced-save flag *)

\* C23: after a response has been interpreted as OK the forced-save flag is false.
C23_OkClearsForceSave ==
    (interp.phase = "async" /\ interp.result.result = "OK") => ~forceSave

\* A 200 whose body is not JSON was interpreted as OK with the flag still set.
C23_OkStillForced ==
    /\ interp.phase = "async"
    /\ interp.status = HTTP_OK
    /\ ~parseJSON(interp.body)
    /\ interp.result.result = "OK"
    /\ forceSave

----------------------------------------------------------------------------
(* Claims about repeated locking *)

\* C24: a call of updateLockState that the host answers with 200, made right
\* after a call with the same lock argument that was answered with 200 too,
\* leaves isLocked, the lock token and the failure reason as the first left them.
C24_UpdateLockIdempotent ==
    [][\A lock \in BOOLEAN :
          (AnsweredOk(lastOp, lock) /\ AnsweredOk(lastOp', lock) /\ lastOp' # lastOp)
          => /\ lockCtx'.isLocked = lockCtx.isLocked
             /\ lockCtx'.isLocked = lock
             /\ lockCtx'.lockToken = lockCtx.lockToken
             /\ lockCtx'.lockFailureReason = lockCtx.lockFailureReason]_vars

\* A second LOCK answered with 200, later than the first.
C24_Witness ==
    /\ AnsweredOk(lastOp, TRUE)
    /\ lastOp.host.again
    /\ lastOp.time > 0
    /\ lockCtx.isLocked
    /\ lockCtx.lockFailureReason = ""

----------------------------------------------------------------------------
(* Claims about the process-wide tables *)

\* C25: no step changes WopiHosts, AliasHosts or AllHosts.
C25_TablesReadOnly ==
    [][/\ WopiHosts' = WopiHosts
       /\ AliasHosts' = AliasHosts
       /\ AllHosts' = AllHosts]_vars

\* A getNewUri call has left an entry in AliasHosts that initialization did not put there.
C25_TableGrown ==
    /\ resolved # {}
    /\ \E e \in AliasHosts : e.real = ""

----------------------------------------------------------------------------
(* Claims about the anonymization cache *)

\* C26: a text that has a pseudonym in the cache keeps that pseudonym in every step.
C26_CacheAppendOnly ==
    [][\A text \in DOMAIN AnonymizedStrings :
          /\ text \in DOMAIN AnonymizedStrings'
          /\ AnonymizedStrings'[text] = AnonymizedStrings[text]]_vars

\* A text was given a pseudonym by anonymize and now maps to the name a later
\* mapAnonymized call gave.
C26_Overwritten ==
    \E r \in anonReturned :
        /\ r.result.kind = "anonymized"
        /\ Mapped(r.text)
        /\ AnonymizedStrings[r.text] = Given("alias")

----------------------------------------------------------------------------
(* The requests of a backend whose metadata fetch was redirected *)

\* Hosts that redirect CheckFileInfo, with or without an access token in the
\* Location.
AddressHosts ==
    Hosts({Endless, 0, 1, 2}, {302, 307}, {200, 404},
          {NonJsonBody,
           JsonBody([BaseFileName |-> "doc.odt", OwnerId |-> "u1", LastModifiedTime |-> "t1",
                     UserCanWrite |-> TRUE, SupportsLocks |-> TRUE])},
          {<<>>, <<"secret2">>})

\* The caller fetches the metadata before it locks, downloads or uploads.
AddressFetch ==
    /\ lastOp.op \in {"none", "fetch"}
    /\ requestsSent = 0
    /\ \E host \in AddressHosts, rnd \in {"0a1b2c3d"} : getWOPIFileInfo(host, rnd)

AddressLock ==
    \E lock \in BOOLEAN, resp \in LockResponses : updateLockState(lock, resp)

\* A download from the canonical contents URL.
AddressDownload ==
    \E host \in ShortHosts : DownloadAttempt(host, ContentsUri, -1)

AddressUpload ==
    \E isSaveAs \in BOOLEAN, isRename \in BOOLEAN :
        uploadLocalFileToStorageAsync(TRUE, isSaveAs, isRename, "ok")

AddressUploadFinished ==
    \E r \in inFlight : finishedCallback(r, HTTP_OK, NonJsonBody)

AddressNext ==
    \/ AddressFetch
    \/ AddressLock
    \/ AddressDownload
    \/ AddressUpload
    \/ UploadAsyncReturn
    \/ AddressUploadFinished

SpecAddress == RedirectInit /\ [][AddressNext]_vars

\* The Location of the last hop a fetch followed: the answer to the request
\* before its last one.
LastLocation(op) == HostResponse(op.host, Len(op.requests) - 2).location

\* A URI without the value of any access token.
Stripped(u) == Uri(u.path, [i \in DOMAIN u.tokens |-> ""])

\* C27: a fetch that followed redirects leaves the active URI at the Location of
\* the last hop followed, without its access token; the active URI changes in no
\* other way, and every lock update, contents download and upload is requested
\* at the path of the active URI.
C27_RequestsFollowRedirect ==
    [][/\ (lastOp'.op = "fetch" /\ Len(lastOp'.requests) > 1
              => uri' = Stripped(LastLocation(lastOp')))
       /\ (uri' # uri => lastOp'.op = "fetch" /\ Len(lastOp'.requests) > 1)
       /\ (lastOp'.op = "updateLock" /\ lastOp'.requests # <<>>
              => lastOp'.requests[1].path = uri'.path)
       /\ (lastOp'.op = "download" /\ lastOp'.requests # <<>>
              => lastOp'.requests[1].path = uri'.path \o "/contents")
       /\ \A r \in inFlight' \ inFlight :
              r.path = IF r.isSaveAs \/ r.isRename THEN uri'.path
                       ELSE uri'.path \o "/contents"]_vars

\* After a redirected fetch a lock request went to the redirected path while a
\* save to its contents URL is in flight.
C27_Witness ==
    /\ uri = Uri("/moved/b", <<"">>)
    /\ lastOp.op = "updateLock"
    /\ lastOp.requests # <<>>
    /\ lastOp.requests[1].path = "/moved/b"
    /\ \E r \in inFlight : r.path = "/moved/b/contents"

\* After a redirected fetch the document was downloaded from the contents URL
\* of the redirected URI.
C27_WitnessDownload ==
    /\ uri.path = "/moved/a"
    /\ lastOp.op = "download"
    /\ lastOp.outcome = "none"
    /\ lastOp.requests[1].path = "/moved/a/contents"

----------------------------------------------------------------------------
(* Claims about the download of a template *)

\* C28: a download with a template URI makes one attempt, from the template
\* URI: its requests are the template and the Locations it was redirected to,
\* none goes to the file URL or to the contents URL, and the outcome of that
\* attempt, a failure included, is the outcome of the call.
C28_TemplateOnly ==
    lastOp.op = "materialize" /\ lastOp.host.template # ""
        => LET attempts == lastOp.host.attempts
               only == attempts[1]
           IN  /\ Len(attempts) = 1
               /\ only.from = lastOp.host.template
               /\ lastOp.requests = only.requests
               /\ lastOp.outcome = only.outcome
               /\ \A i \in DOMAIN lastOp.requests :
                     /\ lastOp.requests[i].path =
                           IF i = 1 THEN lastOp.host.template
                           ELSE HostResponse(only.host, i - 2).location.path
                     /\ lastOp.requests[i].path \notin {fileUrl, ContentsUri.path}

\* The download of a template failed at the host although the backend holds a
\* file URL.
C28_Witness ==
    /\ lastOp.op = "materialize"
    /\ lastOp.host.template # ""
    /\ fileUrl # ""
    /\ lastOp.requests # <<>>
    /\ lastOp.outcome = "StorageConnection"

----------------------------------------------------------------------------
(* The caller's callback, run inside the finished handler on the poller's
   thread: it may query the upload state and issue the next upload *)

\* The poller's thread is inside the callback invoked with Complete.
InCallback == [NoInterp EXCEPT !.phase = "callback"]

\* An upload issued outside of a callback.
ReentryUpload ==
    /\ interp = NoInterp
    /\ \E isSaveAs \in BOOLEAN, isRename \in BOOLEAN :
          uploadLocalFileToStorageAsync(TRUE, isSaveAs, isRename, "ok")

\* The poller runs the finished handler, which enters the caller's callback.
ReentryFinished ==
    /\ interp = NoInterp
    /\ owner.pc = "idle"
    /\ \E r \in inFlight, status \in UploadStatuses, body \in UploadBodies :
          finishedCallbackIn(r, status, body, InCallback)

\* The callback asks for the state of the asynchronous upload.
CallbackQuery ==
    /\ interp = InCallback
    /\ owner.pc = "idle"
    /\ lastOp' = [op |-> "query", host |-> 0, lock |-> FALSE, time |-> now,
                  requests |-> <<>>, outcome |-> queryLocalFileToStorageAsyncUploadState]
    /\ UNCHANGED <<uri, filename, fileUrl, isDownloaded, lockCtx, now, refreshSeconds>>
    /\ UNCHANGED <<uploadVars, forceSave, modifiedTime, interp, factoryVars, localVars,
                   anonVars>>

\* The callback issues the next upload.
CallbackUpload ==
    /\ interp = InCallback
    /\ \E isSaveAs \in BOOLEAN, isRename \in BOOLEAN :
          uploadLocalFileToStorageAsync(TRUE, isSaveAs, isRename, "ok")

\* The callback returns, and with it the finished handler.
CallbackReturn ==
    /\ interp = InCallback
    /\ owner.pc = "idle"
    /\ interp' = NoInterp
    /\ UNCHANGED <<uploadVars, forceSave, modifiedTime, remoteVars, factoryVars, localVars,
                   anonVars>>

ReentryNext ==
    \/ ReentryUpload
    \/ UploadAsyncReturn
    \/ ReentryFinished
    \/ CallbackQuery
    \/ CallbackUpload
    \/ CallbackReturn

SpecReentry == Init /\ [][ReentryNext]_vars

\* The Complete states call i's callback has received.
Completions(i) == {k \in DOMAIN callbacks[i] : callbacks[i][k].state = "Complete"}

\* C29: the finished handler clears the single-flight guard and interprets the
\* response before it invokes the callback, once per upload: on entry to the
\* callback no upload is in progress, a query made by the callback before it
\* uploads returns None, the first upload the callback issues is dispatched, and
\* nothing in the callback interprets the response again.
C29_ClearedBeforeCallback ==
    [][/\ \A i \in CallIds : Cardinality(Completions(i)') <= 1
       /\ (interp = NoInterp /\ interp' = InCallback
              => /\ ~uploadHttpSession'
                 /\ queryLocalFileToStorageAsyncUploadState' = "None")
       /\ (interp = InCallback /\ lastOp' # lastOp /\ inFlight = {}
              => lastOp'.op = "query" /\ lastOp'.outcome = "None")
       /\ (interp = InCallback /\ calls' # calls /\ inFlight = {}
              => \E i \in CallIds : /\ calls[i].outcome = "none"
                                    /\ calls'[i].outcome = "dispatched"
                                    /\ \E r \in inFlight' : r.id = i)
       /\ (interp = InCallback => modifiedTime' = modifiedTime /\ forceSave' = forceSave)]_vars

\* Inside the callback of the first upload a query returned None and the second
\* upload was then dispatched.
C29_Witness ==
    /\ interp = InCallback
    /\ callbacks[1] # <<>>
    /\ callbacks[1][Len(callbacks[1])].state = "Complete"
    /\ lastOp.op = "query"
    /\ lastOp.outcome = "None"
    /\ calls[2].outcome = "dispatched"
    /\ \E r \in inFlight : r.id = 2

----------------------------------------------------------------------------
(* The modified timestamp: stored by fetches and by upload responses, carried
   by saves *)

\* Hosts that answer CheckFileInfo at once: with a record that holds a
\* LastModifiedTime, with one that holds none, or with a failure.
TimestampHosts ==
    Hosts({0}, {302}, {200, 404},
          {b \in InfoBodies : b.json /\ "FileUrl" \notin DOMAIN b.obj}, {<<>>})

TimestampFetch ==
    \E host \in TimestampHosts, rnd \in {"0a1b2c3d"} : getWOPIFileInfo(host, rnd)

TimestampUpload ==
    \E isSaveAs \in BOOLEAN, isRename \in BOOLEAN :
        uploadLocalFileToStorageAsync(TRUE, isSaveAs, isRename, "ok")

\* The response the finished handler has interpreted last.
Interpreted(r, status, body) ==
    [NoInterp EXCEPT !.phase = "async", !.status = status, !.body = body,
                     !.isSaveAs = r.isSaveAs, !.isRename = r.isRename]

\* Upload responses with and without a LastModifiedTime.
TimestampBodies ==
    {b \in UploadBodies : ~b.json \/ DOMAIN b.obj \in {{"UserId"}, {"LastModifiedTime", "Name", "Url"}}}

TimestampFinished ==
    \E r \in inFlight, status \in {200, 409}, body \in TimestampBodies :
        finishedCallbackIn(r, status, body, Interpreted(r, status, body))

TimestampNext ==
    \/ TimestampFetch
    \/ TimestampUpload
    \/ UploadAsyncReturn
    \/ TimestampFinished
    \/ ForceSaveCall

SpecTimestamp == RedirectInit /\ [][TimestampNext]_vars

\* C30: a request handed to the poller carries the timestamp header iff it is a
\* normal save and the force flag is not set, with the stored LastModifiedTime
\* as its value; and the stored LastModifiedTime is only assigned by a fetch that
\* returned a record, the value of its response, and by the handling of an upload
\* answered with 200 and a JSON body, the value of that body.
C30_TimestampHeader ==
    [][/\ \A r \in inFlight' \ inFlight :
             r.timestamp = IF ~r.isSaveAs /\ ~r.isRename /\ ~forceSave
                           THEN <<modifiedTime>> ELSE <<>>
       /\ (modifiedTime' # modifiedTime
              => \/ /\ inFlight' = inFlight
                    /\ lastOp'.op = "fetch"
                    /\ lastOp'.outcome = "none"
                    /\ modifiedTime' = getJSONValue(FetchLastResponse'.body,
                                                    "LastModifiedTime", "")
                 \/ /\ inFlight' # inFlight
                    /\ inFlight' \subseteq inFlight
                    /\ interp'.status = HTTP_OK
                    /\ parseJSON(interp'.body)
                    /\ modifiedTime' = getJSONValue(interp'.body,
                                                    "LastModifiedTime", ""))]_vars

\* After a save answered with 200 and a new LastModifiedTime, the next save
\* carries the time of the upload response.
C30_Witness ==
    /\ interp.phase = "async"
    /\ interp.status = HTTP_OK
    /\ getJSONValue(interp.body, "LastModifiedTime", "") = "t3"
    /\ \E r \in inFlight : r.timestamp = <<"t3">>

\* A forced normal save, without the header.
C30_WitnessForced ==
    \E r \in inFlight : r.timestamp = <<>> /\ ~r.isSaveAs /\ ~r.isRename

----------------------------------------------------------------------------
(* The Local backend: downloads and uploads *)

LocalNext ==
    \/ LocalDownload
    \/ LocalUpload

SpecLocal == MaterializeInit /\ [][LocalNext]_vars

\* C31 as stated: an upload of the Local backend copies the jailed file back
\* iff isCopy is set.
C31_CopyBackIffCopy ==
    lastOp.op = "localUpload" => ((lastOp.requests # <<>>) <=> lastOp.host.isCopy)

\* C31: isCopy is set by exactly the calls that made the jailed file by the
\* copy fallback and is never cleared; an upload copies back iff isCopy is set
\* and the file being uploaded exists, so on a backend whose jailed file was
\* moved or linked and never copied nothing is copied back.
C31_CopyBackIffCopyAndUploading ==
    [][/\ (isCopy => isCopy')
       /\ (~isCopy /\ isCopy'
              => /\ lastOp'.op = "localDownload"
                 /\ lastOp'.outcome = "none"
                 /\ lastOp'.requests[Len(lastOp'.requests)] = "copy"
                 /\ localFiles'.jailed = "copied")
       /\ (~isCopy' => localFiles'.jailed # "copied")
       /\ (lastOp'.op = "localUpload"
              => /\ (lastOp'.requests # <<>>)
                       <=> (lastOp'.host.isCopy /\ lastOp'.host.uploading)
                 /\ lastOp'.host.isCopy = isCopy'
                 /\ (~isCopy' /\ lastOp'.host.jailed \in {"moved", "linked"}
                        => lastOp'.requests = <<>>))]_vars

\* The jailed file was copied and an upload has copied it back.
C31_Witness ==
    /\ lastOp.op = "localUpload"
    /\ lastOp.requests = <<"copyBack">>
    /\ lastOp.outcome = "OK"
    /\ localFiles.jailed = "copied"
    /\ isCopy

\* The jailed file was linked and an upload found a file to upload.
C31_WitnessLinked ==
    /\ lastOp.op = "localUpload"
    /\ lastOp.host.uploading
    /\ lastOp.requests = <<>>
    /\ localFiles.jailed = "linked"

----------------------------------------------------------------------------
(* Metadata fetches that share one LockContext *)

\* Fetch after fetch, against hosts whose record reports lock support, denies
\* it or does not mention it, and against hosts that fail.
FetchAgain ==
    \E host \in InfoHosts, rnd \in RandomHex : getWOPIFileInfo(host, rnd)

SpecFetch == RedirectInit /\ [][FetchAgain]_vars

\* The fetch op returned a record whose SupportsLocks is true.
ReportedLocks(op) ==
    /\ op.op = "fetch"
    /\ op.outcome = "none"
    /\ getJSONValue(HostResponse(op.host, Len(op.requests) - 1).body, "SupportsLocks", FALSE)

\* C32: supportsLocks is set by a fetch that returned a record reporting
\* SupportsLocks and by nothing else; once set, no later fetch clears it or
\* changes the token.
C32_SupportsLocksSticky ==
    [][/\ lockCtx'.supportsLocks <=> (lockCtx.supportsLocks \/ ReportedLocks(lastOp'))
       /\ (lockCtx.supportsLocks => lockCtx'.lockToken = lockCtx.lockToken)
       /\ (~lockCtx'.supportsLocks => lockCtx'.lockToken = NoToken)]_vars

\* Lock support was reported once and the last fetch returned a record that
\* does not report it.
C32_Witness ==
    /\ lockCtx.supportsLocks
    /\ lockCtx.lockToken # NoToken
    /\ lastOp.op = "fetch"
    /\ lastOp.outcome = "none"
    /\ ~ReportedLocks(lastOp)

----------------------------------------------------------------------------
(* Claims about an upload that fails to dispatch *)

\* C33: when a call fails to dispatch, no upload is in progress afterwards:
\* the state queried is None, and the next call is not rejected.
C33_FailedDispatchClearsGuard ==
    [][\A i \in CallIds :
          calls[i].outcome = "none" /\ calls'[i].outcome = "failed"
              => /\ ~UploadInProgress(uploadHttpSession')
                 /\ queryLocalFileToStorageAsyncUploadState' = "None"]_vars

\* A call failed to dispatch and the next call was rejected as in progress,
\* with no request at the poller.
C33_RejectedAfterFailure ==
    /\ calls[1].outcome = "failed"
    /\ calls[2].outcome = "rejected"
    /\ requestsSent = 0
    /\ inFlight = {}

----------------------------------------------------------------------------
(* Claims about the order of the notifications of one upload *)

\* C34: no callback receives the notification made at the return of the call
\* after the Complete notification of the same upload.
C34_DispatchThenCompletion ==
    \A i \in CallIds :
        \A k \in DOMAIN callbacks[i], l \in DOMAIN callbacks[i] :
            k < l => ~(callbacks[i][k].state = "Complete" /\ callbacks[i][l].state = "Running")

\* The finished handler ran while the call that dispatched was still returning.
C34_CompleteWhileReturning ==
    /\ owner.pc = "returning"
    /\ callbacks[owner.id] # <<>>
    /\ callbacks[owner.id][1].state = "Complete"

----------------------------------------------------------------------------
(* Claims about the fields of a LockContext taken together *)

\* C35: a context that is locked supports locks and has a lock token, and a
\* lock update of the Local backend leaves the context as it was.
C35_LockedImpliesSupported ==
    [][/\ (lockCtx'.isLocked
              => lockCtx'.supportsLocks /\ lockCtx'.lockToken # NoToken)
       /\ (lastOp'.op = "localUpdateLock" => lockCtx'.isLocked = lockCtx.isLocked)]_vars

\* The lock was taken at the host.
C35_Witness ==
    /\ lockCtx.isLocked
    /\ lockCtx.supportsLocks
    /\ lastOp.op = "updateLock"
    /\ lastOp.lock
    /\ lastOp.outcome = "true"
    /\ lastOp.requests # <<>>

\* The Local backend was asked to lock and the context is not locked.
C35_WitnessLocal ==
    /\ lastOp.op = "localUpdateLock"
    /\ lastOp.lock
    /\ ~lockCtx.isLocked

----------------------------------------------------------------------------
(* The URI stored in a backend, for every URI it may be given *)

\* One or two access_token parameters, or none.
TokenLists == {<<>>, <<"secret">>, <<"secret", "secret2">>}

\* Hosts that redirect CheckFileInfo to a Location with such parameters.
SanitizeHosts ==
    Hosts({Endless, 0, 1, 2}, {302, 307}, {200, 404}, {NonJsonBody}, TokenLists)

SanitizeInit ==
    /\ uploadHttpSession = FALSE
    /\ inFlight = {}
    /\ requestsSent = 0
    /\ calls = [i \in CallIds |-> NoCall]
    /\ callbacks = [i \in CallIds |-> <<>>]
    /\ owner = [pc |-> "idle", id |-> 0]
    /\ forceSave = FALSE
    /\ modifiedTime = ""
    /\ interp = NoInterp
    /\ \E tokens \in TokenLists : RemoteInitAt(Uri("/wopi/files/1", tokens))
    /\ refreshSeconds = DefaultRefreshSeconds
    /\ Initialized(DefaultConfig)
    /\ LocalIdle
    /\ AnonIdle

SanitizeFetch ==
    \E host \in SanitizeHosts : getWOPIFileInfo(host, "0a1b2c3d")

SpecSanitize == SanitizeInit /\ [][SanitizeFetch]_vars

\* C36: no access_token parameter of the stored URI has a value.
C36_NoTokenStored ==
    \A i \in DOMAIN uri.tokens : uri.tokens[i] = ""

\* The stored URI came from a redirect and holds a token value.
C36_TokenKeptAfterRedirect ==
    /\ lastOp.op = "fetch"
    /\ Len(lastOp.requests) > 1
    /\ \E i \in DOMAIN uri.tokens : uri.tokens[i] # ""

\* With at most one access_token parameter in every URI given, none is stored.
C36_SingleTokenCleared ==
    (Len(uri.tokens) <= 1) => C36_NoTokenStored

----------------------------------------------------------------------------
(* Claims about what a response that is not OK leaves behind *)

\* C37: an interpretation whose result is not OK leaves the stored
\* LastModifiedTime and the forced-save flag as they were.
C37_NotOkKeepsFileInfo ==
    [][interp'.phase = "async" /\ interp'.result.result # "OK"
          => modifiedTime' = modifiedTime /\ forceSave' = forceSave]_vars

\* A forced save was refused as a conflict although the response carried a
\* JSON body: the flag is still set.
C37_Witness ==
    /\ interp.phase = "async"
    /\ interp.status = HTTP_CONFLICT
    /\ parseJSON(interp.body)
    /\ interp.result.result \in {"CONFLICT", "DOC_CHANGED"}
    /\ forceSave
    /\ modifiedTime = "t1"

----------------------------------------------------------------------------
(* Claims about the failure reason of a lock update *)

\* C38: after a lock update of the remote backend the failure reason is the
\* one the host gave with a response other than 200, and empty in every other
\* case: after a 200, after a refusal without a reason, after a transport
\* error and on a context without lock support.
C38_ReasonOfLastCall ==
    lastOp.op = "updateLock"
        => lockCtx.lockFailureReason =
              IF /\ lastOp.requests # <<>>
                 /\ lastOp.host.kind = "response"
                 /\ lastOp.host.status # HTTP_OK
              THEN lastOp.host.reason
              ELSE ""

\* A refusal with a reason is recorded.
C38_Witness ==
    /\ lastOp.op = "updateLock"
    /\ lastOp.requests # <<>>
    /\ lastOp.host.status = HTTP_CONFLICT
    /\ lastOp.host.reason = "Locked by another"
    /\ lockCtx.lockFailureReason = "Locked by another"

\* A refusal without a reason leaves none.
C38_WitnessNoReason ==
    /\ lastOp.op = "updateLock"
    /\ lastOp.requests # <<>>
    /\ lastOp.host.status = HTTP_CONFLICT
    /\ lastOp.host.reason = ""
    /\ lockCtx.lockFailureReason = ""

----------------------------------------------------------------------------
(* Concurrent anonymize calls, with no other caller of mapAnonymized *)

AnonRaceNext == AnonLookupStep \/ AnonInsertStep

SpecAnonRace == RedirectInit /\ [][AnonRaceNext]_vars

\* C39: the anonymize calls of the threads for one text that is not empty have
\* returned one pseudonym, and it is the one the cache holds.
C39_ConcurrentCallsAgree ==
    \A a \in anonReturned, b \in anonReturned :
        (a.text = b.text /\ a.salt = b.salt /\ a.text # <<>>)
            => /\ a.result = b.result
               /\ Mapped(a.text)
               /\ AnonymizedStrings[a.text] = a.result

\* Both threads have missed the lookup for the same text.
C39_BothMissed ==
    /\ anonThreads[1].pc = "hash"
    /\ anonThreads[2].pc = "hash"
    /\ anonThreads[1].text = anonThreads[2].text
    /\ anonThreads[1].salt = anonThreads[2].salt
    /\ anonThreads[1].text # <<>>

====
